---- MODULE Spec2Model ----
(***************************************************************************)
(* Habit tracking with gamification: the two variants of the repository,   *)
(* HabitDiary (src/habit_diary.py, "absorb" policy for same-day repeats)   *)
(* and HabitJournal (src/habit_journal.py, "reject" policy).               *)
(*                                                                         *)
(* Tables are bags of rows: the autoincrement id and the created_at stamp  *)
(* of a row are left out, every other column the scoring reads is kept.    *)
(* Dates are proleptic Gregorian ordinals (date.toordinal()); the callers  *)
(* hand both classes canonical ISO dates (habit_diary.py:598 parses to a   *)
(* date, habit_journal.py:550 re-formats with isoformat()), for which the  *)
(* order of the stored strings is the order of the ordinals.               *)
(***************************************************************************)
EXTENDS Integers, FiniteSets, Sequences, Bags, TLC

VARIABLES variant, dhabits, dlogs, dawards, jhabits, jlogs, jbadges, ret, calls

vars == <<variant, dhabits, dlogs, dawards, jhabits, jlogs, jbadges, ret, calls>>
dvars == <<dhabits, dlogs, dawards>>
jvars == <<jhabits, jlogs, jbadges>>

(***************************************************************************)
(* calls holds, for each process that runs log_completion statement by     *)
(* statement, the position of its call and the values it has read so far.  *)
(* A call that no other process overlaps is one step and leaves calls as   *)
(* it is.                                                                  *)
(***************************************************************************)
Procs == {"A", "B"}

Idle == [pc |-> "idle"]

(***************************************************************************)
(* Bounds of the model.                                                    *)
(***************************************************************************)
\* days of the window in which completions are logged in any order
NumDays == 4
\* days of the window in which completions are logged in ascending order
RunDays == 15
\* completions (point-bearing rows) logged in the any-order window
MaxLogs == 3
\* same-day repeats absorbed (diary) or rejected calls remembered
MaxNotes == 2

(***************************************************************************)
(* Calendar: datetime.date as the code uses it.                            *)
(***************************************************************************)
IsLeap(y) == (y % 4 = 0) /\ ((y % 100 # 0) \/ (y % 400 = 0))

DaysInMonth(y, m) ==
  IF m = 2 THEN (IF IsLeap(y) THEN 29 ELSE 28)
  ELSE IF m \in {4, 6, 9, 11} THEN 30 ELSE 31

DaysBeforeYear(y) ==
  (y - 1) * 365 + ((y - 1) \div 4) - ((y - 1) \div 100) + ((y - 1) \div 400)

RECURSIVE DaysBeforeMonth(_, _)
DaysBeforeMonth(y, m) ==
  IF m = 1 THEN 0 ELSE DaysBeforeMonth(y, m - 1) + DaysInMonth(y, m - 1)

\* date(y, m, d).toordinal()
Ordinal(y, m, d) == DaysBeforeYear(y) + DaysBeforeMonth(y, m) + d

\* first day of the windows: Sunday 2024-12-29, so that the windows hold
\* the end of an ISO week, an ISO week that starts in the previous calendar
\* year, and the end of a month
FirstDay == Ordinal(2024, 12, 29)

Days == FirstDay .. (FirstDay + NumDays - 1)
RunWindow == FirstDay .. (FirstDay + RunDays - 1)

Years == 2024 .. 2026

\* date.year and date.month of an ordinal, from the inverse of toordinal()
YearFromOrdinal(o) ==
  CHOOSE y \in Years : Ordinal(y, 1, 1) <= o /\ o < Ordinal(y + 1, 1, 1)

MonthFromOrdinal(o) ==
  CHOOSE m \in 1 .. 12 :
    /\ Ordinal(YearFromOrdinal(o), m, 1) <= o
    /\ o < Ordinal(YearFromOrdinal(o), m, 1) + DaysInMonth(YearFromOrdinal(o), m)

Calendar == (FirstDay - 40) .. (FirstDay + 60)

YearTable == [o \in Calendar |-> YearFromOrdinal(o)]
MonthTable == [o \in Calendar |-> MonthFromOrdinal(o)]

YearOf(o) == YearTable[o]
MonthOf(o) == MonthTable[o]

\* date.isoweekday(): Monday is 1
isoweekday(o) == ((o + 6) % 7) + 1

\* Monday of ISO week 1 of a year (datetime._isoweek1monday)
IsoWeek1Monday(y) ==
  LET firstday == Ordinal(y, 1, 1)
      firstweekday == (firstday + 6) % 7
      week1monday == firstday - firstweekday
  IN IF firstweekday > 3 THEN week1monday + 7 ELSE week1monday

\* date.isocalendar(): <<iso_year, iso_week>>
isocalendar(o) ==
  LET y == YearOf(o)
      week == (o - IsoWeek1Monday(y)) \div 7
  IN IF o < IsoWeek1Monday(y)
       THEN <<y - 1, ((o - IsoWeek1Monday(y - 1)) \div 7) + 1>>
       ELSE IF week >= 52 /\ o >= IsoWeek1Monday(y + 1)
              THEN <<y + 1, 1>>
              ELSE <<y, week + 1>>

\* iso_to_monday(iso_year, iso_week)
iso_to_monday(iso_year, iso_week) ==
  LET fourth_jan == Ordinal(iso_year, 1, 4)
      delta == isoweekday(fourth_jan) - 1
      year_start_monday == fourth_jan - delta
  IN year_start_monday + 7 * (iso_week - 1)

\* month_range with the first day of the next month as last day
month_range_Inclusive(year, month) ==
  LET first == Ordinal(year, month, 1)
      next_month == IF month = 12 THEN Ordinal(year + 1, 1, 1)
                    ELSE Ordinal(year, month + 1, 1)
  IN <<first, next_month>>

\* month_range(year, month): <<first, last>>
month_range(year, month) ==
  LET first == Ordinal(year, month, 1)
      next_month == IF month = 12 THEN Ordinal(year + 1, 1, 1)
                    ELSE Ordinal(year, month + 1, 1)
  IN <<first, next_month - 1>>

\* the week bounds _award_weekly_consistency_bonus_if_eligible computes
WeekStart == [o \in Calendar |-> iso_to_monday(isocalendar(o)[1], isocalendar(o)[2])]
WeekEnd == [o \in Calendar |-> WeekStart[o] + 6]

(***************************************************************************)
(* Rows and sums.                                                          *)
(***************************************************************************)
NULL == 0

RECURSIVE SumOver(_, _, _)
\* SUM(points) over the rows of S, with multiplicity in bag B
SumOver(B, S, field) ==
  IF S = {} THEN 0
  ELSE LET r == CHOOSE x \in S : TRUE
       IN r[field] * CopiesIn(r, B) + SumOver(B, S \ {r}, field)

RECURSIVE CountOver(_, _)
\* COUNT(*) over the rows of S, with multiplicity in bag B
CountOver(B, S) ==
  IF S = {} THEN 0
  ELSE LET r == CHOOSE x \in S : TRUE
       IN CopiesIn(r, B) + CountOver(B, S \ {r})

\* an insert that leaves the new row alone in the table
Insert_Overwrite(B, row) == SetToBag({row})

Insert(B, row) == B (+) SetToBag({row})

(***************************************************************************)
(* HabitDiary (src/habit_diary.py).                                        *)
(*   habit row: [id, name, difficulty, frequency_per_week, is_active]      *)
(*   logs row:  [habit_id, log_date, completed, points, kind]              *)
(*   award row: [name, habit_id, award_date, points, period_start,         *)
(*               period_end]                                               *)
(***************************************************************************)
BASE_POINTS == 10
WEEKLY_CONSISTENCY_BONUS == 20

Min(a, b) == IF a <= b THEN a ELSE b
Max(a, b) == IF a >= b THEN a ELSE b

\* int(round(num / den)): Python rounds a half to the even neighbour
RoundHalfEven(num, den) ==
  LET q == num \div den
      r == num % den
  IN IF 2 * r < den THEN q
     ELSE IF 2 * r > den THEN q + 1
     ELSE IF q % 2 = 0 THEN q ELSE q + 1

\* DIFFICULTY_MULTIPLIER.get(difficulty, 1.0), in tenths
DIFFICULTY_MULTIPLIER(difficulty) ==
  CASE difficulty = 1 -> 10
    [] difficulty = 2 -> 12
    [] difficulty = 3 -> 15
    [] OTHER -> 10

\* the points with a streak bonus that is not capped
Diary_calculate_points_for_completion_Uncapped(difficulty, streak_length) ==
  LET streak_bonus == 5 * Max(0, streak_length - 1)
  IN RoundHalfEven(BASE_POINTS * DIFFICULTY_MULTIPLIER(difficulty) * (100 + streak_bonus),
                   1000)

\* _calculate_points_for_completion: the streak bonus is in hundredths
\* (STREAK_STEP_BONUS = 0.05 a day, MAX_STREAK_BONUS_MULTIPLIER = 0.5)
Diary_calculate_points_for_completion(difficulty, streak_length) ==
  LET streak_bonus == Min(50, 5 * Max(0, streak_length - 1))
  IN RoundHalfEven(BASE_POINTS * DIFFICULTY_MULTIPLIER(difficulty) * (100 + streak_bonus),
                   1000)

\* a lookup that falls back on every habit when the name is not found
Diary_get_habit_by_id_or_name_Fallback(habits, ref) ==
  IF ref.isdigit THEN {h \in habits : h.id = ref.id}
  ELSE IF \E h \in habits : h.name = ref.name THEN {h \in habits : h.name = ref.name}
  ELSE habits

\* the habit rows a reference resolves to (none or one): by id when the
\* reference is all digits, by name otherwise
Diary_get_habit_by_id_or_name(habits, ref) ==
  IF ref.isdigit THEN {h \in habits : h.id = ref.id}
  ELSE {h \in habits : h.name = ref.name}

\* the same rows without the completed = 1 condition
DiaryCompleted_AnyCompletion(logs, habit_id) ==
  {r \in BagToSet(logs) : r.habit_id = habit_id /\ r.kind = "COMPLETION"}

\* rows WHERE habit_id = ? AND kind = 'COMPLETION' AND completed = 1
DiaryCompleted(logs, habit_id) ==
  {r \in BagToSet(logs) :
     r.habit_id = habit_id /\ r.kind = "COMPLETION" /\ r.completed = 1}

\* a walk that counts every completion day up to cursor_day, gaps or not
DiaryWalkBack_NoGap(dates_set, cursor_day) ==
  Cardinality({d \in dates_set : d <= cursor_day})

RECURSIVE DiaryWalkBack(_, _)
\* the backward walk of _calculate_streak_length from cursor_day
DiaryWalkBack(dates_set, cursor_day) ==
  IF cursor_day \in dates_set THEN 1 + DiaryWalkBack(dates_set, cursor_day - 1) ELSE 0

Diary_calculate_streak_length(logs, habit_id, upto_day) ==
  LET dates_set == {r.log_date : r \in {x \in DiaryCompleted(logs, habit_id) :
                                           x.log_date <= upto_day}}
      streak == DiaryWalkBack(dates_set, upto_day)
  IN IF dates_set = {} THEN 1
     ELSE IF streak = 0 THEN 1 ELSE streak

\* the count over every row of kind COMPLETION, annotations included
Diary_get_total_completions_AnyRow(logs, habit_id) ==
  CountOver(logs, DiaryCompleted_AnyCompletion(logs, habit_id))

Diary_get_total_completions(logs, habit_id) ==
  CountOver(logs, DiaryCompleted(logs, habit_id))

\* _get_month_total_points: only the logs table is summed
\* _get_month_total_points that adds p_awards, the points of the month's
\* awards, to the points of its logs
Diary_get_month_total_points_WithAwards(logs, year, month) ==
  LET range == month_range(year, month)
  IN SumOver(logs, {r \in BagToSet(logs) :
                      range[1] <= r.log_date /\ r.log_date <= range[2]}, "points")
     + SumOver(logs, {r \in BagToSet(logs) :
                        /\ range[1] <= r.log_date /\ r.log_date <= range[2]
                        /\ r.kind = "BONUS"}, "points")

Diary_get_month_total_points(logs, year, month) ==
  LET range == month_range(year, month)
  IN SumOver(logs, {r \in BagToSet(logs) :
                      range[1] <= r.log_date /\ r.log_date <= range[2]}, "points")

\* the count without the BETWEEN condition on log_date
DiaryWeekCount_AnyWeek(logs, habit_id, week_start, week_end) ==
  CountOver(logs, DiaryCompleted(logs, habit_id))

\* cnt: the habit's point-bearing completions dated within the week
DiaryWeekCount(logs, habit_id, week_start, week_end) ==
  CountOver(logs, {r \in DiaryCompleted(logs, habit_id) :
                     week_start <= r.log_date /\ r.log_date <= week_end})

\* the check that never finds an earlier bonus
DiaryWeekAwarded_Never(awards, habit_id, week_start, week_end) == 0

\* already_awarded: the habit's WEEKLY_CONSISTENCY awards dated within the week
DiaryWeekAwarded(awards, habit_id, week_start, week_end) ==
  CountOver(awards, {a \in BagToSet(awards) :
                       /\ a.name = "WEEKLY_CONSISTENCY"
                       /\ a.habit_id = habit_id
                       /\ week_start <= a.award_date
                       /\ a.award_date <= week_end})

\* the weekly bonus stored in awards only, without its BONUS row in logs
Diary_award_weekly_consistency_bonus_if_eligible_NoLog(st, habit, log_day) ==
  LET week_start == WeekStart[log_day]
      week_end == WeekEnd[log_day]
      cnt == DiaryWeekCount(st.logs, habit.id, week_start, week_end)
      already_awarded == DiaryWeekAwarded(st.awards, habit.id, week_start, week_end)
  IN IF cnt >= habit.frequency_per_week /\ already_awarded = 0
     THEN [logs |-> st.logs,
           awards |-> Insert(st.awards,
                      [name |-> "WEEKLY_CONSISTENCY", habit_id |-> habit.id,
                       award_date |-> log_day, points |-> WEEKLY_CONSISTENCY_BONUS,
                       period_start |-> week_start, period_end |-> week_end]),
           bonus |-> WEEKLY_CONSISTENCY_BONUS]
     ELSE [logs |-> st.logs, awards |-> st.awards, bonus |-> 0]

\* _award_weekly_consistency_bonus_if_eligible on tables st = [logs, awards];
\* the result carries the bonus returned
Diary_award_weekly_consistency_bonus_if_eligible(st, habit, log_day) ==
  LET week_start == WeekStart[log_day]
      week_end == WeekEnd[log_day]
      cnt == DiaryWeekCount(st.logs, habit.id, week_start, week_end)
      already_awarded == DiaryWeekAwarded(st.awards, habit.id, week_start, week_end)
  IN IF cnt >= habit.frequency_per_week /\ already_awarded = 0
     THEN [logs |-> Insert(st.logs,
                      [habit_id |-> habit.id, log_date |-> log_day, completed |-> 0,
                       points |-> WEEKLY_CONSISTENCY_BONUS, kind |-> "BONUS"]),
           awards |-> Insert(st.awards,
                      [name |-> "WEEKLY_CONSISTENCY", habit_id |-> habit.id,
                       award_date |-> log_day, points |-> WEEKLY_CONSISTENCY_BONUS,
                       period_start |-> week_start, period_end |-> week_end]),
           bonus |-> WEEKLY_CONSISTENCY_BONUS]
     ELSE [logs |-> st.logs, awards |-> st.awards, bonus |-> 0]

\* _award_badge without its SELECT for an existing award
Diary_award_badge_NoCheck(st, habit_id, when, badge_name) ==
  [logs |-> Insert(st.logs,
              [habit_id |-> habit_id, log_date |-> when, completed |-> 0,
               points |-> 0, kind |-> "BADGE"]),
   awards |-> Insert(st.awards,
              [name |-> badge_name, habit_id |-> habit_id, award_date |-> when,
               points |-> 0, period_start |-> NULL, period_end |-> NULL])]

\* _award_badge: skipped when the same badge of the habit exists on that day
Diary_award_badge(st, habit_id, when, badge_name) ==
  LET exists == CountOver(st.awards, {a \in BagToSet(st.awards) :
                                        /\ a.name = badge_name
                                        /\ a.habit_id = habit_id
                                        /\ a.award_date = when})
  IN IF exists > 0 THEN st
     ELSE [logs |-> Insert(st.logs,
                      [habit_id |-> habit_id, log_date |-> when, completed |-> 0,
                       points |-> 0, kind |-> "BADGE"]),
           awards |-> Insert(st.awards,
                      [name |-> badge_name, habit_id |-> habit_id, award_date |-> when,
                       points |-> 0, period_start |-> NULL, period_end |-> NULL])]

\* _check_and_award_badges with the streak badge given from 7 days on
Diary_check_and_award_badges_AtLeast(st, habit, log_day) ==
  LET streak == Diary_calculate_streak_length(st.logs, habit.id, log_day)
  IN IF streak >= 7 THEN Diary_award_badge(st, habit.id, log_day, "STREAK_7") ELSE st

\* _check_and_award_badges on tables st = [logs, awards]
Diary_check_and_award_badges(st, habit, log_day) ==
  LET streak == Diary_calculate_streak_length(st.logs, habit.id, log_day)
      s1 == IF streak = 7 THEN Diary_award_badge(st, habit.id, log_day, "STREAK_7") ELSE st
      s2 == IF streak = 30 THEN Diary_award_badge(s1, habit.id, log_day, "STREAK_30") ELSE s1
      total_completions == Diary_get_total_completions(s2.logs, habit.id)
      s3 == IF total_completions = 30
            THEN Diary_award_badge(s2, habit.id, log_day, "COMPLETE_30") ELSE s2
      s4 == IF total_completions = 100
            THEN Diary_award_badge(s3, habit.id, log_day, "COMPLETE_100") ELSE s3
  IN s4

RECURSIVE SumPts(_)
\* sum(p for (_, _, p) in per_habit)
SumPts(per_habit) ==
  IF per_habit = {} THEN 0
  ELSE LET t == CHOOSE x \in per_habit : TRUE
       IN t[3] + SumPts(per_habit \ {t})

\* suggest_rewards_for_points: the pair of suggestions is named by its
\* rank, 1 the lowest (total_points < 200); the habit suffix is added when
\* there is a top habit
suggest_rewards_for_points(total_points, has_top_habit) ==
  [rank |-> IF total_points < 200 THEN 1
            ELSE IF total_points < 400 THEN 2
            ELSE IF total_points < 700 THEN 3
            ELSE IF total_points < 1000 THEN 4
            ELSE 5,
   habit_suffix |-> has_top_habit]

\* month_summary: per_habit is the set of its (id, name, pts) rows, awards
\* the award rows of the period
Diary_month_summary(habits, logs, awards, year, month) ==
  LET range == month_range(year, month)
      per_habit ==
        {<<h.id, h.name,
           SumOver(logs, {l \in BagToSet(logs) :
                            /\ l.habit_id = h.id
                            /\ range[1] <= l.log_date /\ l.log_date <= range[2]},
                   "points")>> : h \in habits}
      total == SumPts(per_habit)
  IN [op |-> "month_summary", err |-> "none", period |-> <<year, month>>,
      per_habit |-> per_habit, total_points |-> total,
      awards |-> {a \in BagToSet(awards) :
                    range[1] <= a.award_date /\ a.award_date <= range[2]},
      suggested_rewards |-> suggest_rewards_for_points(total, per_habit # {})]

\* what a call leaves behind for its caller: the operation, the error raised
\* ("none" when it returned) and the values returned
Ret(op, err, gained, total, streak, earned) ==
  [op |-> op, err |-> err, gained |-> gained, total |-> total, streak |-> streak,
   earned |-> earned]

\* add_habit without the UNIQUE constraint on the name
Diary_add_habit_NoUnique(name, difficulty, frequency_per_week) ==
  /\ variant = "diary"
  /\ dhabits' = dhabits \cup
       {[id |-> Cardinality(dhabits) + 1, name |-> name, difficulty |-> difficulty,
         frequency_per_week |-> frequency_per_week, is_active |-> 1]}
  /\ ret' = Ret("add_habit", "none", 0, 0, 0, {})
  /\ UNCHANGED <<variant, calls, dlogs, dawards, jvars>>

\* add_habit: the INSERT fails on a taken name (UNIQUE) and on a difficulty
\* or frequency outside the CHECK constraints
Diary_add_habit(name, difficulty, frequency_per_week) ==
  /\ variant = "diary"
  /\ IF \/ \E h \in dhabits : h.name = name
        \/ difficulty \notin {1, 2, 3}
        \/ frequency_per_week \notin 1 .. 7
     THEN /\ dhabits' = dhabits
          /\ ret' = Ret("add_habit", "IntegrityError", 0, 0, 0, {})
     ELSE /\ dhabits' = dhabits \cup
               {[id |-> Cardinality(dhabits) + 1, name |-> name, difficulty |-> difficulty,
                 frequency_per_week |-> frequency_per_week, is_active |-> 1]}
          /\ ret' = Ret("add_habit", "none", 0, 0, 0, {})
  /\ UNCHANGED <<variant, calls, dlogs, dawards, jvars>>

\* list_habits that never filters on is_active
Diary_list_habits_All(habits, include_inactive) == habits

\* list_habits: the rows selected (their ORDER BY id is left out)
Diary_list_habits(habits, include_inactive) ==
  IF include_inactive THEN habits ELSE {h \in habits : h.is_active = 1}

\* deactivate_habit: UPDATE habits SET is_active = 0 WHERE id = ?
Diary_deactivate_habit(habit_id) ==
  /\ variant = "diary"
  /\ dhabits' = {IF h.id = habit_id THEN [h EXCEPT !.is_active = 0] ELSE h : h \in dhabits}
  /\ ret' = Ret("deactivate_habit", "none", 0, 0, 0, {})
  /\ UNCHANGED <<variant, calls, dlogs, dawards, jvars>>

\* rows that make log_completion take its duplicate branch
DiaryExisting(logs, habit_id, log_day) ==
  CountOver(logs, {r \in BagToSet(logs) :
                     r.habit_id = habit_id /\ r.log_date = log_day /\ r.kind = "COMPLETION"})

\* log_completion(habit_ref, log_date_value)
Diary_log_completion(ref, log_day) ==
  /\ variant = "diary"
  /\ LET found == Diary_get_habit_by_id_or_name(dhabits, ref)
     IN IF found = {}
        THEN /\ ret' = Ret("log_completion", "NotFound", 0, 0, 0, {})
             /\ UNCHANGED <<dlogs, dawards>>
        ELSE LET habit == CHOOSE h \in found : TRUE
             IN IF DiaryExisting(dlogs, habit.id, log_day) > 0
                THEN LET logs1 == Insert(dlogs,
                                    [habit_id |-> habit.id, log_date |-> log_day,
                                     completed |-> 0, points |-> 0, kind |-> "COMPLETION"])
                     IN /\ dlogs' = logs1
                        /\ dawards' = dawards
                        /\ ret' = Ret("log_completion", "none", 0,
                                      Diary_get_month_total_points(
                                        logs1, YearOf(log_day), MonthOf(log_day)),
                                      0, {})
                ELSE LET streak_length ==
                           Diary_calculate_streak_length(dlogs, habit.id, log_day)
                         points == Diary_calculate_points_for_completion(
                                     habit.difficulty, streak_length)
                         s0 == [logs |-> Insert(dlogs,
                                     [habit_id |-> habit.id, log_date |-> log_day,
                                      completed |-> 1, points |-> points,
                                      kind |-> "COMPLETION"]),
                                awards |-> dawards]
                         s1 == Diary_award_weekly_consistency_bonus_if_eligible(
                                 s0, habit, log_day)
                         s2 == Diary_check_and_award_badges(s1, habit, log_day)
                     IN /\ dlogs' = s2.logs
                        /\ dawards' = s2.awards
                        /\ ret' = Ret("log_completion", "none",
                                      points + s1.bonus + 0,
                                      Diary_get_month_total_points(
                                        s2.logs, YearOf(log_day), MonthOf(log_day)),
                                      0, {})
  /\ UNCHANGED <<variant, calls, dhabits, jvars>>

(***************************************************************************)
(* HabitJournal (src/habit_journal.py).                                    *)
(*   habit row: [id, name, is_active]                                      *)
(*   logs row:  [habit_id, date, points_awarded, streak_count]             *)
(*   badge row: [code, habit_id, points_at_award]                          *)
(***************************************************************************)
\* str.strip() on the names the model uses
Strip(name) == IF name = " read " THEN "read" ELSE name

\* f"STREAK_{streak_count}" for the thresholds of _maybe_award_streak_badge
streak_thresholds == {3, 7, 14, 30, 60, 100}

StreakCode(n) ==
  CASE n = 3 -> "STREAK_3"
    [] n = 7 -> "STREAK_7"
    [] n = 14 -> "STREAK_14"
    [] n = 30 -> "STREAK_30"
    [] n = 60 -> "STREAK_60"
    [] n = 100 -> "STREAK_100"

\* the thresholds of _maybe_award_points_threshold_badges, in order
thresholds == <<100, 500, 1000, 2000, 5000>>

PointsCode(t) ==
  CASE t = 100 -> "POINTS_100"
    [] t = 500 -> "POINTS_500"
    [] t = 1000 -> "POINTS_1000"
    [] t = 2000 -> "POINTS_2000"
    [] t = 5000 -> "POINTS_5000"

Journal_get_habit_by_name(habits, name) == {h \in habits : h.name = Strip(name)}

Journal_get_total_points(logs) == SumOver(logs, BagToSet(logs), "points_awarded")

Journal_count_logs_on_date(logs, iso_date) ==
  CountOver(logs, {r \in BagToSet(logs) : r.date = iso_date})

Journal_has_log_on_date(logs, habit_id, iso_date) ==
  \E r \in BagToSet(logs) : r.habit_id = habit_id /\ r.date = iso_date

\* _get_previous_day_streak: the streak stored on the previous day's row
Journal_get_previous_day_streak(logs, habit_id, iso_date) ==
  LET prev == iso_date - 1
      rows == {r \in BagToSet(logs) : r.habit_id = habit_id /\ r.date = prev}
  IN IF rows = {} THEN 0 ELSE (CHOOSE r \in rows : TRUE).streak_count

\* the badges table without its UNIQUE(code, habit_id)
JournalBadgeConflict_NoUnique(badges, code, habit_id) == FALSE

\* the badges table's UNIQUE(code, habit_id): SQLite holds two NULLs to be
\* distinct, so a row with habit_id NULL never conflicts
JournalBadgeConflict(badges, code, habit_id) ==
  /\ habit_id # NULL
  /\ \E b \in BagToSet(badges) : b.code = code /\ b.habit_id = habit_id

\* _award_badge on st = [badges, earned]: the IntegrityError is swallowed
Journal_award_badge(st, logs, code, habit_id) ==
  IF JournalBadgeConflict(st.badges, code, habit_id) THEN st
  ELSE [badges |-> Insert(st.badges,
                     [code |-> code, habit_id |-> habit_id,
                      points_at_award |-> Journal_get_total_points(logs)]),
        earned |-> st.earned \cup {code}]

\* the badge given whenever there are logs, not only with the first one
Journal_maybe_award_first_step_badge_AnyCount(st, logs) ==
  IF BagCardinality(logs) >= 1 THEN Journal_award_badge(st, logs, "FIRST_STEP", NULL)
  ELSE st

Journal_maybe_award_first_step_badge(st, logs) ==
  IF BagCardinality(logs) = 1 THEN Journal_award_badge(st, logs, "FIRST_STEP", NULL)
  ELSE st

Journal_maybe_award_streak_badge(st, logs, habit_id, streak_count) ==
  IF streak_count \in streak_thresholds
  THEN Journal_award_badge(st, logs, StreakCode(streak_count), habit_id)
  ELSE st

RECURSIVE JournalPointsLoop_NoExists(_, _, _)
\* the loop without its SELECT for an existing badge
JournalPointsLoop_NoExists(st, logs, i) ==
  IF i > Len(thresholds) THEN st
  ELSE LET threshold == thresholds[i]
           next == IF Journal_get_total_points(logs) >= threshold
                   THEN Journal_award_badge(st, logs, PointsCode(threshold), NULL)
                   ELSE st
       IN JournalPointsLoop_NoExists(next, logs, i + 1)

RECURSIVE JournalPointsLoop(_, _, _)
\* the for loop of _maybe_award_points_threshold_badges from index i on
JournalPointsLoop(st, logs, i) ==
  IF i > Len(thresholds) THEN st
  ELSE LET threshold == thresholds[i]
           code == PointsCode(threshold)
           exists == \E b \in BagToSet(st.badges) : b.code = code /\ b.habit_id = NULL
           next == IF ~exists /\ Journal_get_total_points(logs) >= threshold
                   THEN Journal_award_badge(st, logs, code, NULL)
                   ELSE st
       IN JournalPointsLoop(next, logs, i + 1)

Journal_maybe_award_points_threshold_badges(st, logs) == JournalPointsLoop(st, logs, 1)

RECURSIVE JournalWalkBack(_, _)
\* the while loop of _compute_current_streak_up_to: the days counted from
\* current_day backwards while they are in dates_set
JournalWalkBack(dates_set, current_day) ==
  IF current_day \in dates_set THEN 1 + JournalWalkBack(dates_set, current_day - 1)
  ELSE 0

\* _compute_current_streak_up_to
Journal_compute_current_streak_up_to(logs, habit_id, iso_date) ==
  LET rows == {r.date : r \in {x \in BagToSet(logs) :
                                  x.habit_id = habit_id /\ x.date <= iso_date}}
  IN IF rows = {} THEN 0 ELSE JournalWalkBack(rows, iso_date)

\* a streak that never carries the previous day's over
JournalCurrentStreak_Reset(prev_streak) == 1

\* the running streak log_completion stores and scores
JournalCurrentStreak(prev_streak) == IF prev_streak > 0 THEN prev_streak + 1 ELSE 1

\* the points without the cap of 20 on the streak bonus
JournalAwardedPoints_Uncapped(current_streak, prior_completions_today) ==
  LET base_points == 10
      streak_bonus == Max(current_streak - 1, 0) * 2
      combo_bonus == IF prior_completions_today >= 2 THEN 5 ELSE 0
  IN base_points + streak_bonus + combo_bonus

\* the points log_completion awards
JournalAwardedPoints(current_streak, prior_completions_today) ==
  LET base_points == 10
      streak_bonus == Min(Max(current_streak - 1, 0) * 2, 20)
      combo_bonus == IF prior_completions_today >= 2 THEN 5 ELSE 0
  IN base_points + streak_bonus + combo_bonus

\* the logs table without its UNIQUE(habit_id, date)
JournalLogConflict_NoUnique(logs, habit_id, iso_date) == FALSE

\* the logs table's UNIQUE(habit_id, date)
JournalLogConflict(logs, habit_id, iso_date) ==
  Journal_has_log_on_date(logs, habit_id, iso_date)

\* _monthly_reward: the tier names are "Платина", "Золото", "Серебро",
\* "Бронза" and "Старт" in the code
Journal_monthly_reward(points) ==
  IF points >= 1000 THEN "Platinum"
  ELSE IF points >= 600 THEN "Gold"
  ELSE IF points >= 300 THEN "Silver"
  ELSE IF points >= 100 THEN "Bronze"
  ELSE "Start"

\* month_report with best_streak taken over the logs of every month
Journal_month_report_AllLogs(logs, year, month) ==
  LET start == Ordinal(year, month, 1)
      end == (IF month = 12 THEN Ordinal(year + 1, 1, 1)
              ELSE Ordinal(year, month + 1, 1)) - 1
      rows == {r \in BagToSet(logs) : start <= r.date /\ r.date <= end}
      points == SumOver(logs, rows, "points_awarded")
      streaks == {r.streak_count : r \in BagToSet(logs)}
  IN [op |-> "month_report", err |-> "none", period |-> <<year, month>>,
      points |-> points,
      completions |-> CountOver(logs, rows),
      unique_habits |-> Cardinality({r.habit_id : r \in rows}),
      best_streak |-> IF streaks = {} THEN 0
                      ELSE CHOOSE x \in streaks : \A y \in streaks : y <= x,
      reward_tier |-> Journal_monthly_reward(points)]

\* month_report, without its top_habits list
Journal_month_report(logs, year, month) ==
  LET start == Ordinal(year, month, 1)
      end == (IF month = 12 THEN Ordinal(year + 1, 1, 1)
              ELSE Ordinal(year, month + 1, 1)) - 1
      rows == {r \in BagToSet(logs) : start <= r.date /\ r.date <= end}
      points == SumOver(logs, rows, "points_awarded")
      streaks == {r.streak_count : r \in rows}
  IN [op |-> "month_report", err |-> "none", period |-> <<year, month>>,
      points |-> points,
      completions |-> CountOver(logs, rows),
      unique_habits |-> Cardinality({r.habit_id : r \in rows}),
      best_streak |-> IF streaks = {} THEN 0
                      ELSE CHOOSE x \in streaks : \A y \in streaks : y <= x,
      reward_tier |-> Journal_monthly_reward(points)]

\* add_habit: the INSERT fails on a taken name (UNIQUE)
Journal_add_habit(name) ==
  /\ variant = "journal"
  /\ IF \E h \in jhabits : h.name = Strip(name)
     THEN /\ jhabits' = jhabits
          /\ ret' = Ret("add_habit", "IntegrityError", 0, 0, 0, {})
     ELSE /\ jhabits' = jhabits \cup
               {[id |-> Cardinality(jhabits) + 1, name |-> Strip(name), is_active |-> 1]}
          /\ ret' = Ret("add_habit", "none", 0, 0, 0, {})
  /\ UNCHANGED <<variant, calls, jlogs, jbadges, dvars>>

\* log_completion(habit_name, iso_date)
Journal_log_completion(habit_name, iso_date) ==
  /\ variant = "journal"
  /\ LET found == Journal_get_habit_by_name(jhabits, habit_name)
     IN IF found = {}
        THEN /\ ret' = Ret("log_completion", "NotFound", 0, 0, 0, {})
             /\ UNCHANGED <<jlogs, jbadges>>
        ELSE LET habit_id == (CHOOSE h \in found : TRUE).id
                 prev_streak == Journal_get_previous_day_streak(jlogs, habit_id, iso_date)
                 current_streak == JournalCurrentStreak(prev_streak)
                 awarded_points ==
                   JournalAwardedPoints(current_streak,
                                        Journal_count_logs_on_date(jlogs, iso_date))
             IN IF JournalLogConflict(jlogs, habit_id, iso_date)
                THEN /\ ret' = Ret("log_completion", "Duplicate", 0, 0, 0, {})
                     /\ UNCHANGED <<jlogs, jbadges>>
                ELSE LET logs1 == Insert(jlogs,
                                    [habit_id |-> habit_id, date |-> iso_date,
                                     points_awarded |-> awarded_points,
                                     streak_count |-> current_streak])
                         b0 == [badges |-> jbadges, earned |-> {}]
                         b1 == Journal_maybe_award_first_step_badge(b0, logs1)
                         b2 == Journal_maybe_award_streak_badge(
                                 b1, logs1, habit_id, current_streak)
                         b3 == Journal_maybe_award_points_threshold_badges(b2, logs1)
                     IN /\ jlogs' = logs1
                        /\ jbadges' = b3.badges
                        /\ ret' = Ret("log_completion", "none",
                                      awarded_points, 0, current_streak, b3.earned)
  /\ UNCHANGED <<variant, calls, jhabits, dvars>>

(***************************************************************************)
(* The callers: which calls are made, with which arguments.                *)
(***************************************************************************)
Names == {"read", "run"}
JournalNames == Names \cup {" read "}

\* <<name, difficulty, frequency_per_week>> of the habits added
Profiles == {<<"read", 1, 5>>, <<"run", 3, 2>>}

DiaryRefs ==
  [isdigit : {TRUE}, id : {2}] \cup [isdigit : {FALSE}, name : Names]

DiaryNotes(logs) ==
  CountOver(logs, {r \in BagToSet(logs) : r.kind = "COMPLETION" /\ r.completed = 0})

DiaryCompletions(logs) ==
  CountOver(logs, {r \in BagToSet(logs) : r.kind = "COMPLETION" /\ r.completed = 1})

\* the dates on which a diary reference has a completion row of any kind
DiaryDatesOf(ref) ==
  {r.log_date : r \in {x \in BagToSet(dlogs) :
     /\ x.kind = "COMPLETION"
     /\ \E h \in Diary_get_habit_by_id_or_name(dhabits, ref) : h.id = x.habit_id}}

JournalDatesOf(name) ==
  {r.date : r \in {x \in BagToSet(jlogs) :
     \E h \in Journal_get_habit_by_name(jhabits, name) : h.id = x.habit_id}}

\* number of maximal runs of consecutive days in a set of dates
Runs(dates) == Cardinality({d \in dates : d - 1 \notin dates})

SetMax(S) == CHOOSE x \in S : \A y \in S : y <= x

\* gaps a run of ascending completions may hold
MaxGaps == 1

\* a date that continues a habit's history in ascending order: later than
\* every date logged, with at most MaxGaps gaps in the history
Ascending(dates, d) ==
  /\ dates # {} => d > SetMax(dates)
  /\ Runs(dates \cup {d}) <= MaxGaps + 1

Init ==
  /\ variant \in {"diary", "journal"}
  /\ dhabits = {}
  /\ dlogs = EmptyBag
  /\ dawards = EmptyBag
  /\ jhabits = {}
  /\ jlogs = EmptyBag
  /\ jbadges = EmptyBag
  /\ ret = Ret("init", "none", 0, 0, 0, {})
  /\ calls = [p \in Procs |-> Idle]

DiaryAddHabit == \E p \in Profiles : Diary_add_habit(p[1], p[2], p[3])

\* completions in any order of dates within Days
DiaryLog ==
  \E ref \in DiaryRefs, d \in Days :
    /\ IF d \in DiaryDatesOf(ref) THEN DiaryNotes(dlogs) < MaxNotes
       ELSE DiaryCompletions(dlogs) < MaxLogs
    /\ Diary_log_completion(ref, d)

JournalAddHabit == \E name \in JournalNames : Journal_add_habit(name)

JournalLog ==
  \E name \in JournalNames, d \in Days :
    /\ d \notin JournalDatesOf(name) => BagCardinality(jlogs) < MaxLogs
    /\ Journal_log_completion(name, d)

Next == DiaryAddHabit \/ DiaryLog \/ JournalAddHabit \/ JournalLog

Spec == Init /\ [][Next]_vars

\* one habit logged in ascending order of dates within RunWindow
DiaryRunAddHabit ==
  \E p \in {q \in Profiles : q[1] = "read"} : Diary_add_habit(p[1], p[2], p[3])

DiaryRunLog ==
  \E d \in RunWindow :
    LET ref == [isdigit |-> FALSE, name |-> "read"]
    IN /\ Ascending(DiaryDatesOf(ref), d)
       /\ Diary_log_completion(ref, d)

JournalRunAddHabit == Journal_add_habit("read")

JournalRunLog ==
  \E d \in RunWindow :
    /\ Ascending(JournalDatesOf("read"), d)
    /\ Journal_log_completion("read", d)

NextRun == DiaryRunAddHabit \/ DiaryRunLog \/ JournalRunAddHabit \/ JournalRunLog

SpecRun == Init /\ [][NextRun]_vars

\* the months reports are asked for: the two months of the any-order window
\* and the month after them
ReportMonths == {<<2024, 12>>, <<2025, 1>>, <<2025, 2>>}

DiaryMonthSummary ==
  \E m \in ReportMonths :
    /\ variant = "diary"
    /\ ret' = Diary_month_summary(dhabits, dlogs, dawards, m[1], m[2])
    /\ UNCHANGED <<variant, calls, dvars, jvars>>

JournalMonthReport ==
  \E m \in ReportMonths :
    /\ variant = "journal"
    /\ ret' = Journal_month_report(jlogs, m[1], m[2])
    /\ UNCHANGED <<variant, calls, dvars, jvars>>

\* completions in any order, with monthly reports in between
NextReport ==
  \/ DiaryAddHabit \/ DiaryLog \/ DiaryMonthSummary
  \/ JournalAddHabit \/ JournalLog \/ JournalMonthReport

SpecReport == Init /\ [][NextReport]_vars

DiaryDeactivate == \E habit_id \in 1 .. 3 : Diary_deactivate_habit(habit_id)

DiaryListHabits ==
  \E include_inactive \in BOOLEAN :
    /\ variant = "diary"
    /\ ret' = [op |-> "list_habits", err |-> "none", include_inactive |-> include_inactive,
               habits |-> Diary_list_habits(dhabits, include_inactive)]
    /\ UNCHANGED <<variant, calls, dvars, jvars>>

\* days on which completions are logged between the operations on habits:
\* from Tuesday 2024-12-31 on, across the end of the month
HabitNumDays == 2

HabitDays == (FirstDay + 2) .. (FirstDay + 1 + HabitNumDays)

DiaryHabitsLog ==
  \E ref \in DiaryRefs, d \in HabitDays :
    /\ IF d \in DiaryDatesOf(ref) THEN DiaryNotes(dlogs) < MaxNotes
       ELSE DiaryCompletions(dlogs) < MaxLogs
    /\ Diary_log_completion(ref, d)

JournalHabitsLog ==
  \E name \in JournalNames, d \in HabitDays :
    /\ d \notin JournalDatesOf(name) => BagCardinality(jlogs) < MaxLogs
    /\ Journal_log_completion(name, d)

\* every operation on habits, completions and reports, in any order
NextHabits ==
  \/ DiaryAddHabit \/ DiaryDeactivate \/ DiaryListHabits \/ DiaryHabitsLog
  \/ DiaryMonthSummary
  \/ JournalAddHabit \/ JournalHabitsLog \/ JournalMonthReport

SpecHabits == Init /\ [][NextHabits]_vars

\* days of the window in which one habit is logged day after day
LongDays == 32
\* same-day repeats absorbed in that window
LongNotes == 1

LongWindow == FirstDay .. (FirstDay + LongDays - 1)

\* the dates that continue a long history: the first day of the window,
\* then the latest day again (a same-day repeat), the day after it or,
\* leaving a gap of one day, the day after that, with at most MaxGaps gaps
\* in the history
LongCandidates(dates) ==
  IF dates = {} THEN {FirstDay}
  ELSE LET latest == SetMax(dates)
       IN {d \in {latest, latest + 1, latest + 2} \cap LongWindow :
             Runs(dates \cup {d}) <= MaxGaps + 1}

DiaryLongAddHabit ==
  \E p \in {q \in Profiles : q[1] = "read"} :
    /\ dlogs = EmptyBag
    /\ Diary_add_habit(p[1], p[2], p[3])

\* one habit logged day after day, the latest day being repeated at times
DiaryLongLog ==
  LET ref == [isdigit |-> FALSE, name |-> "read"]
  IN \E d \in LongCandidates(DiaryDatesOf(ref)) :
       /\ d \in DiaryDatesOf(ref) => DiaryNotes(dlogs) < LongNotes
       /\ Diary_log_completion(ref, d)

JournalLongAddHabit ==
  /\ jlogs = EmptyBag
  /\ Journal_add_habit("read")

JournalLongLog ==
  \E d \in LongCandidates(JournalDatesOf("read")) : Journal_log_completion("read", d)

NextLong == DiaryLongAddHabit \/ DiaryLongLog \/ JournalLongAddHabit \/ JournalLongLog

SpecLong == Init /\ [][NextLong]_vars

\* streak lengths handed to _calculate_points_for_completion
MaxStreak == 40

\* the points function applied to the difficulty of a stored habit and to
\* streak lengths of 1 .. MaxStreak
InitPoints ==
  /\ variant = "diary"
  /\ \E difficulty \in {1, 2, 3} :
       dhabits = {[id |-> 1, name |-> "read", difficulty |-> difficulty,
                   frequency_per_week |-> 5, is_active |-> 1]}
  /\ dlogs = EmptyBag
  /\ dawards = EmptyBag
  /\ jhabits = {}
  /\ jlogs = EmptyBag
  /\ jbadges = EmptyBag
  /\ ret = Ret("init", "none", 0, 0, 0, {})
  /\ calls = [p \in Procs |-> Idle]

CalculatePoints ==
  \E h \in dhabits, streak_length \in 1 .. MaxStreak :
    /\ ret' = Ret("_calculate_points_for_completion", "none",
                  Diary_calculate_points_for_completion(h.difficulty, streak_length),
                  0, streak_length, {})
    /\ UNCHANGED <<variant, calls, dvars, jvars>>

NextPoints == CalculatePoints

SpecPoints == InitPoints /\ [][NextPoints]_vars

(***************************************************************************)
(* log_completion run statement by statement.  Every step below is one     *)
(* SELECT, or the INSERTs of one transaction with their commit; a process  *)
(* keeps what it has read in its entry of calls.  Both classes open the    *)
(* database without an explicit transaction around the call, so between    *)
(* two statements of one process the statements of another may run.        *)
(*   diary call:   [pc, habit, log_day, points, cnt, bonus, todo, after]   *)
(*   journal call: [pc, habit_id, iso_date, current_streak, points,        *)
(*                  total_points, i, code, scope, points_at_award, after,  *)
(*                  earned]                                                *)
(***************************************************************************)
\* days of the window of the calls run statement by statement
StepNumDays == 7

StepWindow == FirstDay .. (FirstDay + StepNumDays - 1)

\* the dates a call may be made for: the first day of the window, then the
\* latest day logged or the day after it
StepCandidates(dates) ==
  IF dates = {} THEN {FirstDay}
  ELSE {SetMax(dates), SetMax(dates) + 1} \cap StepWindow

\* a process is one run of the command line: it makes one call and ends
Done == [pc |-> "done"]

NoCallRunning == \A p \in Procs : calls[p] \in {Idle, Done}

\* the statement of the diary's log_completion at position c.pc, run on the
\* tables logs and awards: the call and the tables after it
DiaryStatement(c, logs, awards) ==
  LET h == c.habit
      d == c.log_day
      Keep(c2) == [call |-> c2, logs |-> logs, awards |-> awards]
      Queue(names, after) ==
        [c EXCEPT !.todo = names, !.after = after,
                  !.pc = IF names = <<>> THEN after ELSE "award_exists"]
      Rest == [c EXCEPT !.todo = Tail(c.todo),
                        !.pc = IF Tail(c.todo) = <<>> THEN c.after ELSE "award_exists"]
  IN CASE c.pc = "existing" ->
            Keep([c EXCEPT !.pc = IF DiaryExisting(logs, h.id, d) > 0
                                  THEN "insert_note" ELSE "streak_length"])
       [] c.pc = "insert_note" ->
            [call |-> [c EXCEPT !.pc = "month_total"],
             logs |-> Insert(logs, [habit_id |-> h.id, log_date |-> d, completed |-> 0,
                                    points |-> 0, kind |-> "COMPLETION"]),
             awards |-> awards]
       [] c.pc = "streak_length" ->
            Keep([c EXCEPT !.pc = "insert_completion",
                           !.points = Diary_calculate_points_for_completion(
                                        h.difficulty,
                                        Diary_calculate_streak_length(logs, h.id, d))])
       [] c.pc = "insert_completion" ->
            [call |-> [c EXCEPT !.pc = "week_cnt"],
             logs |-> Insert(logs, [habit_id |-> h.id, log_date |-> d, completed |-> 1,
                                    points |-> c.points, kind |-> "COMPLETION"]),
             awards |-> awards]
       [] c.pc = "week_cnt" ->
            Keep([c EXCEPT !.pc = "week_awarded",
                           !.cnt = DiaryWeekCount(logs, h.id, WeekStart[d], WeekEnd[d])])
       [] c.pc = "week_awarded" ->
            Keep([c EXCEPT !.pc =
                    IF /\ c.cnt >= h.frequency_per_week
                       /\ DiaryWeekAwarded(awards, h.id, WeekStart[d], WeekEnd[d]) = 0
                    THEN "week_insert" ELSE "badge_streak"])
       [] c.pc = "week_insert" ->
            [call |-> [c EXCEPT !.pc = "badge_streak", !.bonus = WEEKLY_CONSISTENCY_BONUS],
             logs |-> Insert(logs, [habit_id |-> h.id, log_date |-> d, completed |-> 0,
                                    points |-> WEEKLY_CONSISTENCY_BONUS, kind |-> "BONUS"]),
             awards |-> Insert(awards,
                          [name |-> "WEEKLY_CONSISTENCY", habit_id |-> h.id,
                           award_date |-> d, points |-> WEEKLY_CONSISTENCY_BONUS,
                           period_start |-> WeekStart[d], period_end |-> WeekEnd[d]])]
       [] c.pc = "badge_streak" ->
            LET streak == Diary_calculate_streak_length(logs, h.id, d)
            IN Keep(Queue((IF streak = 7 THEN <<"STREAK_7">> ELSE <<>>)
                            \o (IF streak = 30 THEN <<"STREAK_30">> ELSE <<>>),
                          "badge_total"))
       [] c.pc = "badge_total" ->
            LET total_completions == Diary_get_total_completions(logs, h.id)
            IN Keep(Queue((IF total_completions = 30 THEN <<"COMPLETE_30">> ELSE <<>>)
                            \o (IF total_completions = 100 THEN <<"COMPLETE_100">> ELSE <<>>),
                          "month_total"))
       [] c.pc = "award_exists" ->
            IF \E a \in BagToSet(awards) :
                 a.name = Head(c.todo) /\ a.habit_id = h.id /\ a.award_date = d
            THEN Keep(Rest)
            ELSE Keep([c EXCEPT !.pc = "award_insert"])
       [] c.pc = "award_insert" ->
            [call |-> Rest,
             logs |-> Insert(logs, [habit_id |-> h.id, log_date |-> d, completed |-> 0,
                                    points |-> 0, kind |-> "BADGE"]),
             awards |-> Insert(awards,
                          [name |-> Head(c.todo), habit_id |-> h.id, award_date |-> d,
                           points |-> 0, period_start |-> NULL, period_end |-> NULL])]

\* a process starts log_completion: the lookup of the habit
DiaryBegin(p, ref, d) ==
  /\ variant = "diary"
  /\ calls[p] = Idle
  /\ LET found == Diary_get_habit_by_id_or_name(dhabits, ref)
     IN IF found = {}
        THEN /\ ret' = Ret("log_completion", "NotFound", 0, 0, 0, {})
             /\ calls' = [calls EXCEPT ![p] = Done]
        ELSE /\ calls' = [calls EXCEPT ![p] =
                            [pc |-> "existing", habit |-> CHOOSE h \in found : TRUE,
                             log_day |-> d, points |-> 0, cnt |-> 0, bonus |-> 0,
                             todo |-> <<>>, after |-> "none"]]
             /\ ret' = ret
  /\ UNCHANGED <<variant, dvars, jvars>>

\* a process runs its next statement; the last one, the month's total,
\* ends the call
DiaryStep(p) ==
  /\ variant = "diary"
  /\ calls[p] \notin {Idle, Done}
  /\ LET c == calls[p]
     IN IF c.pc = "month_total"
        THEN /\ ret' = Ret("log_completion", "none", c.points + c.bonus + 0,
                           Diary_get_month_total_points(
                             dlogs, YearOf(c.log_day), MonthOf(c.log_day)),
                           0, {})
             /\ calls' = [calls EXCEPT ![p] = Done]
             /\ UNCHANGED <<dlogs, dawards>>
        ELSE LET r == DiaryStatement(c, dlogs, dawards)
             IN /\ dlogs' = r.logs
                /\ dawards' = r.awards
                /\ calls' = [calls EXCEPT ![p] = r.call]
                /\ ret' = ret
  /\ UNCHANGED <<variant, dhabits, jvars>>

\* _award_badge is reached: the code, the habit_id of the badge, and where
\* the call goes on after it
JournalAward(c, code, scope, after) ==
  [c EXCEPT !.pc = "award_total", !.code = code, !.scope = scope, !.after = after]

\* the for loop of _maybe_award_points_threshold_badges moves on
JournalNextThreshold(c) ==
  [c EXCEPT !.i = c.i + 1,
            !.pc = IF c.i + 1 > Len(thresholds) THEN "return" ELSE "points_exists"]

\* the statement of the journal's log_completion at position c.pc, run on
\* the tables logs and badges.  The read of _has_log_on_date in the streak
\* expression and the second _get_total_points of _award_badge, whose
\* results reach no table and no returned value, are left out; the test of
\* _maybe_award_streak_badge is a step of its own that reads no table.
JournalStatement(c, logs, badges) ==
  LET Keep(c2) == [call |-> c2, logs |-> logs, badges |-> badges]
  IN CASE c.pc = "prev_streak" ->
            Keep([c EXCEPT !.pc = "count_today",
                           !.current_streak =
                              JournalCurrentStreak(
                                Journal_get_previous_day_streak(logs, c.habit_id, c.iso_date))])
       [] c.pc = "count_today" ->
            Keep([c EXCEPT !.pc = "insert_log",
                           !.points = JournalAwardedPoints(
                                        c.current_streak,
                                        Journal_count_logs_on_date(logs, c.iso_date))])
       [] c.pc = "insert_log" ->
            [call |-> [c EXCEPT !.pc = "first_count"],
             logs |-> Insert(logs, [habit_id |-> c.habit_id, date |-> c.iso_date,
                                    points_awarded |-> c.points,
                                    streak_count |-> c.current_streak]),
             badges |-> badges]
       [] c.pc = "first_count" ->
            Keep(IF BagCardinality(logs) = 1
                 THEN JournalAward(c, "FIRST_STEP", NULL, "streak_badge")
                 ELSE [c EXCEPT !.pc = "streak_badge"])
       [] c.pc = "streak_badge" ->
            Keep(IF c.current_streak \in streak_thresholds
                 THEN JournalAward(c, StreakCode(c.current_streak), c.habit_id, "points_total")
                 ELSE [c EXCEPT !.pc = "points_total"])
       [] c.pc = "award_total" ->
            Keep([c EXCEPT !.pc = "award_insert",
                           !.points_at_award = Journal_get_total_points(logs)])
       [] c.pc = "award_insert" ->
            LET conflict == JournalBadgeConflict(badges, c.code, c.scope)
                c1 == IF conflict THEN c ELSE [c EXCEPT !.earned = c.earned \cup {c.code}]
            IN [call |-> IF c.after = "points_exists" THEN JournalNextThreshold(c1)
                         ELSE [c1 EXCEPT !.pc = c.after],
                logs |-> logs,
                badges |-> IF conflict THEN badges
                           ELSE Insert(badges, [code |-> c.code, habit_id |-> c.scope,
                                                points_at_award |-> c.points_at_award])]
       [] c.pc = "points_total" ->
            Keep([c EXCEPT !.pc = "points_exists", !.i = 1,
                           !.total_points = Journal_get_total_points(logs)])
       [] c.pc = "points_exists" ->
            LET threshold == thresholds[c.i]
                code == PointsCode(threshold)
                exists == \E b \in BagToSet(badges) : b.code = code /\ b.habit_id = NULL
            IN Keep(IF ~exists /\ c.total_points >= threshold
                    THEN JournalAward(c, code, NULL, "points_exists")
                    ELSE JournalNextThreshold(c))

\* a process starts log_completion: get_habit_by_name
JournalBegin(p, habit_name, iso_date) ==
  /\ variant = "journal"
  /\ calls[p] = Idle
  /\ LET found == Journal_get_habit_by_name(jhabits, habit_name)
     IN IF found = {}
        THEN /\ ret' = Ret("log_completion", "NotFound", 0, 0, 0, {})
             /\ calls' = [calls EXCEPT ![p] = Done]
        ELSE /\ calls' = [calls EXCEPT ![p] =
                            [pc |-> "prev_streak", habit_id |-> (CHOOSE h \in found : TRUE).id,
                             iso_date |-> iso_date, current_streak |-> 0, points |-> 0,
                             total_points |-> 0, i |-> 0, code |-> "none", scope |-> NULL,
                             points_at_award |-> 0, after |-> "none", earned |-> {}]]
             /\ ret' = ret
  /\ UNCHANGED <<variant, dvars, jvars>>

\* a process runs its next statement; the INSERT of the log raises on a
\* taken (habit_id, date), and the return ends the call
JournalStep(p) ==
  /\ variant = "journal"
  /\ calls[p] \notin {Idle, Done}
  /\ LET c == calls[p]
     IN IF c.pc = "insert_log" /\ JournalLogConflict(jlogs, c.habit_id, c.iso_date)
        THEN /\ ret' = Ret("log_completion", "Duplicate", 0, 0, 0, {})
             /\ calls' = [calls EXCEPT ![p] = Done]
             /\ UNCHANGED <<jlogs, jbadges>>
        ELSE IF c.pc = "return"
        THEN /\ ret' = Ret("log_completion", "none", c.points, 0, c.current_streak, c.earned)
             /\ calls' = [calls EXCEPT ![p] = Done]
             /\ UNCHANGED <<jlogs, jbadges>>
        ELSE LET r == JournalStatement(c, jlogs, jbadges)
             IN /\ jlogs' = r.logs
                /\ jbadges' = r.badges
                /\ calls' = [calls EXCEPT ![p] = r.call]
                /\ ret' = ret
  /\ UNCHANGED <<variant, jhabits, dvars>>

\* the calls of the statement-level runs.  A call that no other call
\* overlaps runs as a whole; it builds the history of "read", one day after
\* the other.  The processes call for either habit, on the latest day
\* logged or on the day after it.  Calls start while the logs hold that
\* history and nothing else: no row of "run", no day logged twice.
StepsRead == [isdigit |-> FALSE, name |-> "read"]

StepsRun == [isdigit |-> FALSE, name |-> "run"]

DiaryStepsClean ==
  /\ DiaryDatesOf(StepsRun) = {}
  /\ \A r \in BagToSet(dlogs) :
       r.kind = "COMPLETION" => DiaryExisting(dlogs, r.habit_id, r.log_date) = 1

JournalStepsClean == JournalDatesOf("run") = {}

DiaryStepsAddHabit ==
  /\ NoCallRunning
  /\ dlogs = EmptyBag
  /\ \E p \in Profiles :
       /\ p[1] = "run" => dhabits # {}
       /\ Diary_add_habit(p[1], p[2], p[3])

DiaryStepsLog ==
  /\ NoCallRunning
  /\ \E d \in StepWindow :
       /\ d = IF DiaryDatesOf(StepsRead) = {} THEN FirstDay
              ELSE SetMax(DiaryDatesOf(StepsRead)) + 1
       /\ DiaryStepsClean
       /\ Diary_log_completion(StepsRead, d)

DiaryCall ==
  \E p \in Procs, name \in Names :
    \E d \in StepCandidates({r.log_date : r \in BagToSet(dlogs)}) :
      /\ DiaryStepsClean
      /\ DiaryBegin(p, [isdigit |-> FALSE, name |-> name], d)

DiaryRun == \E p \in Procs : DiaryStep(p)

JournalStepsAddHabit ==
  /\ NoCallRunning
  /\ jlogs = EmptyBag
  /\ \E name \in Names :
       /\ name = "run" => jhabits # {}
       /\ Journal_add_habit(name)

JournalStepsLog ==
  /\ NoCallRunning
  /\ \E d \in StepWindow :
       /\ d = IF JournalDatesOf("read") = {} THEN FirstDay
              ELSE SetMax(JournalDatesOf("read")) + 1
       /\ JournalStepsClean
       /\ Journal_log_completion("read", d)

JournalCall ==
  \E p \in Procs, name \in Names :
    \E d \in StepCandidates({r.date : r \in BagToSet(jlogs)}) :
      /\ JournalStepsClean
      /\ JournalBegin(p, name, d)

JournalRun == \E p \in Procs : JournalStep(p)

NextSteps ==
  \/ DiaryStepsAddHabit \/ DiaryStepsLog \/ DiaryCall \/ DiaryRun
  \/ JournalStepsAddHabit \/ JournalStepsLog \/ JournalCall \/ JournalRun

SpecSteps == Init /\ [][NextSteps]_vars

\* one habit logged once per day, in any order of the days of a week
WeekNumDays == 7

WeekWindow == FirstDay .. (FirstDay + WeekNumDays - 1)

DiaryWeekAddHabit ==
  /\ dlogs = EmptyBag
  /\ \E p \in {q \in Profiles : q[1] = "read"} : Diary_add_habit(p[1], p[2], p[3])

DiaryWeekLog ==
  \E d \in WeekWindow :
    /\ d \notin DiaryDatesOf(StepsRead)
    /\ Diary_log_completion(StepsRead, d)

JournalWeekAddHabit ==
  /\ jlogs = EmptyBag
  /\ Journal_add_habit("read")

JournalWeekLog ==
  \E d \in WeekWindow :
    /\ d \notin JournalDatesOf("read")
    /\ Journal_log_completion("read", d)

NextWeek == DiaryWeekAddHabit \/ DiaryWeekLog \/ JournalWeekAddHabit \/ JournalWeekLog

SpecWeek == Init /\ [][NextWeek]_vars

\* three habits of the journal: "read" is logged day after day, "run" and
\* "walk" once each, on the latest day of "read" or on the day after it
ComboDays == 12

ComboWindow == FirstDay .. (FirstDay + ComboDays - 1)

ComboNames == {"read", "run", "walk"}

InitCombo == Init /\ variant = "journal"

JournalComboAddHabit ==
  /\ jlogs = EmptyBag
  /\ \E name \in ComboNames : Journal_add_habit(name)

JournalComboLog ==
  \E name \in ComboNames, d \in ComboWindow :
    /\ d \in IF JournalDatesOf("read") = {} THEN {FirstDay}
             ELSE {SetMax(JournalDatesOf("read")) + 1}
                    \cup (IF name = "read" THEN {} ELSE {SetMax(JournalDatesOf("read"))})
    /\ name # "read" => JournalDatesOf(name) = {}
    /\ Journal_log_completion(name, d)

NextCombo == JournalComboAddHabit \/ JournalComboLog

SpecCombo == InitCombo /\ [][NextCombo]_vars

(***************************************************************************)
(* Properties.  The predicates below are stated on the rows of the tables, *)
(* apart from the operators that model the code.                           *)
(***************************************************************************)
\* point-bearing completion rows of the diary for (habit, date)
PointBearing(logs, habit_id, d) ==
  CountOver(logs, {r \in BagToSet(logs) :
                     /\ r.habit_id = habit_id /\ r.log_date = d
                     /\ r.kind = "COMPLETION" /\ r.completed = 1})

\* rows of the journal's logs for (habit, date)
JournalRowsOn(logs, habit_id, d) ==
  CountOver(logs, {r \in BagToSet(logs) : r.habit_id = habit_id /\ r.date = d})

AllDays == Days \cup RunWindow
HabitIds == 1 .. 2

\* C1: in both variants every (habit, date) has at most one point-bearing
\* completion row (diary: kind COMPLETION with completed = 1; journal: any
\* row of logs).
C1_OnePointBearingPerDay ==
  \A h \in HabitIds, d \in AllDays :
    /\ PointBearing(dlogs, h, d) <= 1
    /\ JournalRowsOn(jlogs, h, d) <= 1

\* a second log of the same (habit, date) was made and absorbed by the diary
C1_Witness ==
  \E r \in BagToSet(dlogs) :
    /\ r.kind = "COMPLETION" /\ r.completed = 0
    /\ PointBearing(dlogs, r.habit_id, r.log_date) = 1

\* the habit ids a journal name resolves to
JournalIdsOf(name) == {h.id : h \in {x \in jhabits : x.name = Strip(name)}}

\* C2: a journal log_completion for a (habit, date) that already has a log
\* raises an error and leaves the logs and the badges tables as they were.
C2_RejectChangesNothing ==
  [][\A name \in JournalNames, d \in AllDays :
       (/\ \E h \in JournalIdsOf(name) : JournalRowsOn(jlogs, h, d) > 0
        /\ Journal_log_completion(name, d))
       => (ret'.err = "Duplicate" /\ jlogs' = jlogs /\ jbadges' = jbadges)]_vars

\* a duplicate was rejected while badges exist
C2_Witness ==
  /\ ret.op = "log_completion" /\ ret.err = "Duplicate"
  /\ jlogs # EmptyBag /\ jbadges # EmptyBag

\* the habit ids a diary reference resolves to
DiaryIdsOf(ref) ==
  {h.id : h \in {x \in dhabits : IF ref.isdigit THEN x.id = ref.id ELSE x.name = ref.name}}

\* rows of kind COMPLETION of the diary for (habit, date), counting or not
CompletionRecords(logs, habit_id, d) ==
  CountOver(logs, {r \in BagToSet(logs) :
                     r.habit_id = habit_id /\ r.log_date = d /\ r.kind = "COMPLETION"})

\* the months the windows touch
Months == {<<2024, 12>>, <<2025, 1>>}

\* C3: a diary log_completion for a (habit, date) that already has a
\* completion record returns 0 gained points, adds exactly one row, with
\* points 0 and completed = 0, and leaves unchanged the awards, the monthly
\* totals, every habit's total completions and every streak length.
C3_AbsorbChangesNoScore ==
  [][\A ref \in DiaryRefs, d \in AllDays :
       (/\ \E h \in DiaryIdsOf(ref) : CompletionRecords(dlogs, h, d) > 0
        /\ Diary_log_completion(ref, d))
       => /\ ret'.err = "none" /\ ret'.gained = 0
          /\ \E r \in BagToSet(dlogs') :
               dlogs' = Insert(dlogs, r) /\ r.points = 0 /\ r.completed = 0
          /\ dawards' = dawards
          /\ \A m \in Months :
               Diary_get_month_total_points(dlogs', m[1], m[2])
                 = Diary_get_month_total_points(dlogs, m[1], m[2])
          /\ \A h \in HabitIds :
               /\ Diary_get_total_completions(dlogs', h)
                    = Diary_get_total_completions(dlogs, h)
               /\ \A d2 \in AllDays :
                    Diary_calculate_streak_length(dlogs', h, d2)
                      = Diary_calculate_streak_length(dlogs, h, d2)]_vars

\* the same (habit, date) was repeated twice after its completion
C3_Witness ==
  /\ ret.op = "log_completion" /\ ret.err = "none" /\ ret.gained = 0
  /\ \E r \in BagToSet(dlogs) :
       /\ r.kind = "COMPLETION" /\ r.completed = 0 /\ CopiesIn(r, dlogs) >= 2
       /\ PointBearing(dlogs, r.habit_id, r.log_date) = 1

\* awards of the diary with a badge name for a habit
AwardsOf(awards, name, habit_id) ==
  CountOver(awards, {a \in BagToSet(awards) : a.name = name /\ a.habit_id = habit_id})

\* C4: the diary's awards hold at most one award per (badge name, habit) for
\* STREAK_7, STREAK_30, COMPLETE_30 and COMPLETE_100.
C4_OneBadgePerHabit ==
  \A name \in {"STREAK_7", "STREAK_30", "COMPLETE_30", "COMPLETE_100"}, h \in HabitIds :
    AwardsOf(dawards, name, h) <= 1

\* rows of the journal's badges with a code for a habit (NULL: account-wide)
BadgesOf(badges, code, habit_id) ==
  CountOver(badges, {b \in BagToSet(badges) : b.code = code /\ b.habit_id = habit_id})

\* C5: the journal's badges hold at most one row per (code, habit) for the
\* streak badges and at most one row per code for the account-wide badges.
C5_OneBadgePerCode ==
  \A b \in BagToSet(jbadges) : BadgesOf(jbadges, b.code, b.habit_id) <= 1

\* a habit reached streak 3 twice, in two runs, and holds one STREAK_3
C5_Witness ==
  \E r1, r2 \in BagToSet(jlogs) :
    /\ r1.habit_id = r2.habit_id /\ r1.date < r2.date
    /\ r1.streak_count = 3 /\ r2.streak_count = 3
    /\ BadgesOf(jbadges, "STREAK_3", r1.habit_id) = 1
    /\ BadgesOf(jbadges, "FIRST_STEP", NULL) = 1

\* the Monday of the week of a date, from the day of the week
MondayOf(d) == d - ((d + 6) % 7)

WeeklyAwards(awards) == {a \in BagToSet(awards) : a.name = "WEEKLY_CONSISTENCY"}

\* C6: the diary holds at most one WEEKLY_CONSISTENCY award per (habit, ISO
\* week), and each records the Monday and the Sunday of its week as period.
C6_OneWeeklyBonusPerWeek ==
  \A a \in WeeklyAwards(dawards) :
    /\ a.period_start = MondayOf(a.award_date)
    /\ a.period_end = MondayOf(a.award_date) + 6
    /\ CopiesIn(a, dawards) = 1
    /\ \A b \in WeeklyAwards(dawards) :
         (b.habit_id = a.habit_id /\ MondayOf(b.award_date) = MondayOf(a.award_date))
         => b = a

\* a habit was completed on more days of a week than its target, the bonus
\* being granted before the last of them
C6_Witness ==
  \E a \in WeeklyAwards(dawards), h \in dhabits :
    /\ h.id = a.habit_id
    /\ Cardinality({d \in AllDays : /\ MondayOf(d) = MondayOf(a.award_date)
                                    /\ PointBearing(dlogs, h.id, d) = 1})
         > h.frequency_per_week
    /\ \E d \in AllDays : d > a.award_date /\ MondayOf(d) = MondayOf(a.award_date)
                          /\ PointBearing(dlogs, h.id, d) = 1

\* point-bearing completions of a diary habit dated in the week of d
WeekCompletions(logs, habit_id, d) ==
  CountOver(logs, {r \in BagToSet(logs) :
                     /\ r.habit_id = habit_id /\ r.kind = "COMPLETION" /\ r.completed = 1
                     /\ MondayOf(r.log_date) = MondayOf(d)})

\* the dates on which a diary habit has a point-bearing completion
CompletedDates(logs, habit_id) == {d \in AllDays : PointBearing(logs, habit_id, d) >= 1}

\* a log_completion step that persists a point-bearing completion of
\* habit h on date d, through reference ref
DiaryPersists(ref, h, d) ==
  /\ h.id \in DiaryIdsOf(ref)
  /\ CompletionRecords(dlogs, h.id, d) = 0
  /\ Diary_log_completion(ref, d)

\* the step grants the 20-point bonus to habit h on date d: one new award
\* row and one new BONUS row
BonusGranted(h, d) ==
  /\ \E a \in WeeklyAwards(dawards') :
       /\ a.habit_id = h.id /\ a.award_date = d /\ a.points = 20
       /\ CopiesIn(a, dawards') = CopiesIn(a, dawards) + 1
  /\ \E r \in BagToSet(dlogs') :
       /\ r.habit_id = h.id /\ r.log_date = d /\ r.kind = "BONUS" /\ r.points = 20
       /\ CopiesIn(r, dlogs') = CopiesIn(r, dlogs) + 1

NoBonusGranted(h) ==
  /\ \A a \in WeeklyAwards(dawards') : CopiesIn(a, dawards') = CopiesIn(a, dawards)
  /\ \A r \in BagToSet(dlogs') : r.kind = "BONUS" => CopiesIn(r, dlogs') = CopiesIn(r, dlogs)

\* a habit with target 5 whose whole history is the first k days of a week
\* from its Monday on holds the bonus exactly when k = 5, dated that Friday
MondayToFriday ==
  \A h \in dhabits, mon \in AllDays, k \in 1 .. 5 :
    (/\ h.frequency_per_week = 5 /\ MondayOf(mon) = mon
     /\ CompletedDates(dlogs, h.id) = mon .. (mon + k - 1))
    => /\ AwardsOf(dawards, "WEEKLY_CONSISTENCY", h.id) = (IF k = 5 THEN 1 ELSE 0)
       /\ \A a \in WeeklyAwards(dawards) : a.habit_id = h.id => a.award_date = mon + 4

\* C7: a diary log_completion that persists a point-bearing completion of h
\* on d grants the 20-point WEEKLY_CONSISTENCY bonus if and only if, after
\* the insert, h's point-bearing completions dated in the Monday..Sunday
\* week of d number at least h.frequency_per_week and h has no
\* WEEKLY_CONSISTENCY award in that week yet; for a target of 5 logged Monday
\* to Friday the 5th call grants it and none of the first four.
C7_WeeklyBonusIff ==
  /\ [][\A ref \in DiaryRefs, d \in AllDays, h \in dhabits :
          DiaryPersists(ref, h, d)
          => IF /\ WeekCompletions(dlogs', h.id, d) >= h.frequency_per_week
                /\ ~\E a \in WeeklyAwards(dawards) :
                      a.habit_id = h.id /\ MondayOf(a.award_date) = MondayOf(d)
             THEN BonusGranted(h, d)
             ELSE NoBonusGranted(h)]_vars
  /\ []MondayToFriday

\* a habit with target 5 was logged Monday to Friday and holds the bonus
C7_Witness ==
  \E h \in dhabits, mon \in AllDays :
    /\ h.frequency_per_week = 5 /\ MondayOf(mon) = mon
    /\ CompletedDates(dlogs, h.id) = mon .. (mon + 4)
    /\ AwardsOf(dawards, "WEEKLY_CONSISTENCY", h.id) = 1

\* the dates on which a journal habit has a log
LoggedDates(logs, habit_id) == {d \in AllDays : JournalRowsOn(logs, habit_id, d) >= 1}

\* C8: in both variants, a habit with no prior history logged on consecutive
\* days in ascending order holds no STREAK_7 after each of the first 6
\* calls and exactly one after the 7th and after every further day.
C8_Streak7OnDay7 ==
  \A h \in HabitIds :
    /\ LET dates == CompletedDates(dlogs, h)
       IN (dates # {} /\ Runs(dates) = 1)
          => AwardsOf(dawards, "STREAK_7", h) = (IF Cardinality(dates) >= 7 THEN 1 ELSE 0)
    /\ LET dates == LoggedDates(jlogs, h)
       IN (dates # {} /\ Runs(dates) = 1)
          => BadgesOf(jbadges, "STREAK_7", h) = (IF Cardinality(dates) >= 7 THEN 1 ELSE 0)

\* a journal habit was logged on 9 consecutive days and holds one STREAK_7
C8_Witness ==
  \E h \in HabitIds :
    /\ Runs(LoggedDates(jlogs, h)) = 1
    /\ Cardinality(LoggedDates(jlogs, h)) >= 9
    /\ BadgesOf(jbadges, "STREAK_7", h) = 1

\* C9: a journal log_completion returns the streak it stores; the streak is
\* 1 when the previous calendar day has no log of the habit (so also on the
\* habit's first log), and N on the N-th of N consecutive days logged in
\* ascending order.
C9_JournalStreak ==
  [][\A name \in JournalNames, d \in AllDays, h \in HabitIds :
       (/\ h \in JournalIdsOf(name)
        /\ JournalRowsOn(jlogs, h, d) = 0
        /\ Journal_log_completion(name, d))
       => \E r \in BagToSet(jlogs') :
            /\ jlogs' = Insert(jlogs, r)
            /\ r.habit_id = h /\ r.date = d
            /\ ret'.err = "none" /\ ret'.streak = r.streak_count
            /\ (JournalRowsOn(jlogs, h, d - 1) = 0 => r.streak_count = 1)
            /\ (Runs(LoggedDates(jlogs', h)) = 1
                /\ \A d2 \in LoggedDates(jlogs, h) : d2 < d)
               => r.streak_count = Cardinality(LoggedDates(jlogs', h))]_vars

\* a run of 5 days, then a gap, then a log with streak 1 again
C9_Witness ==
  \E r1, r2 \in BagToSet(jlogs) :
    /\ r1.habit_id = r2.habit_id
    /\ r1.streak_count = 5 /\ r2.streak_count = 1 /\ r2.date > r1.date + 1
    /\ ret.op = "log_completion" /\ ret.err = "none"

\* the length of the unbroken run of dates ending at d
RECURSIVE RunEndingAt(_, _)
RunEndingAt(dates, d) == IF d \in dates THEN 1 + RunEndingAt(dates, d - 1) ELSE 0

\* C10: the points the diary stores for a completion of h on d are
\* _calculate_points_for_completion(h.difficulty, N), N the length of the
\* unbroken run of completion days of h ending at d, d included.
C10_PointsUseRunLength ==
  \A h \in dhabits :
    \A r \in BagToSet(dlogs) :
      (r.habit_id = h.id /\ r.kind = "COMPLETION" /\ r.completed = 1)
      => r.points = Diary_calculate_points_for_completion(
                      h.difficulty, RunEndingAt(CompletedDates(dlogs, h.id), r.log_date))

\* the length N >= 1 of the unbroken run of dates that ends at d: the days
\* d - N + 1 .. d are all in dates and the day before them is not
RunLength(dates, d) ==
  CHOOSE n \in 1 .. (Cardinality(dates) + 1) :
    /\ \A k \in 0 .. (n - 1) : d - k \in dates
    /\ d - n \notin dates

\* C11: in whatever order completions are logged (backdated ones included),
\* the streak_count a journal log_completion stores for habit h on date d is
\* the number of consecutive calendar days ending at d, d included, on which
\* h has a completion at the moment of the call.
C11_StreakCountsRunAtCall ==
  [][\A name \in JournalNames, d \in AllDays, h \in HabitIds :
       (/\ h \in JournalIdsOf(name)
        /\ JournalRowsOn(jlogs, h, d) = 0
        /\ Journal_log_completion(name, d))
       => \E r \in BagToSet(jlogs') :
            /\ jlogs' = Insert(jlogs, r)
            /\ r.habit_id = h /\ r.date = d
            /\ r.streak_count = RunLength(LoggedDates(jlogs', h), d)]_vars

\* C12: for every stored history and every date d on which habit h has a
\* point-bearing completion, the diary's _calculate_streak_length(h, d) is
\* the number of consecutive calendar days ending at d that each have a
\* point-bearing completion of h (annotations, BONUS and BADGE rows do not
\* count), whatever the order of logging; it is at least 1 for every date
\* and 1 when h has no history.
C12_StreakLengthIsRun ==
  \A h \in HabitIds, d \in AllDays :
    /\ Diary_calculate_streak_length(dlogs, h, d) >= 1
    /\ PointBearing(dlogs, h, d) >= 1
       => Diary_calculate_streak_length(dlogs, h, d)
            = RunLength(CompletedDates(dlogs, h), d)
    /\ CompletedDates(dlogs, h) = {}
       => Diary_calculate_streak_length(dlogs, h, d) = 1

\* a habit holds a run of 2 days and, after a gap, a further completion,
\* with an annotation and a BONUS row among its rows
C12_Witness ==
  \E h \in HabitIds, d \in AllDays :
    /\ CompletedDates(dlogs, h) = {d, d + 1, d + 3}
    /\ Diary_calculate_streak_length(dlogs, h, d + 1) = 2
    /\ Diary_calculate_streak_length(dlogs, h, d + 3) = 1
    /\ \E r \in BagToSet(dlogs) : r.habit_id = h /\ r.kind = "BONUS"
    /\ \E r \in BagToSet(dlogs) :
         r.habit_id = h /\ r.kind = "COMPLETION" /\ r.completed = 0

\* C13: for each difficulty in {1, 2, 3} the diary's
\* _calculate_points_for_completion(difficulty, s) does not decrease when s
\* grows (s >= 1), is constant from s = 11 on, and never exceeds
\* BASE_POINTS * multiplier * 1.5, that is 15, 18 and 22.5.
C13_PointsMonotoneCapped ==
  ret.op = "_calculate_points_for_completion"
  => \A h \in dhabits :
       /\ \A s2 \in ret.streak .. (MaxStreak + 1) :
            ret.gained <= Diary_calculate_points_for_completion(h.difficulty, s2)
       /\ ret.streak >= 11
          => ret.gained = Diary_calculate_points_for_completion(h.difficulty, 11)
       /\ 100 * ret.gained <= BASE_POINTS * DIFFICULTY_MULTIPLIER(h.difficulty) * 15
       /\ 2 * ret.gained <= (CASE h.difficulty = 1 -> 30
                               [] h.difficulty = 2 -> 36
                               [] h.difficulty = 3 -> 45)

\* the points of a hard habit far beyond the cap: 22, the half of 22.5
\* rounded to the even neighbour
C13_Witness ==
  /\ ret.op = "_calculate_points_for_completion"
  /\ ret.streak >= 30 /\ ret.gained = 22
  /\ \E h \in dhabits : h.difficulty = 3

\* the cumulative points of all logs of the journal
CumulativePoints(logs) == SumOver(logs, BagToSet(logs), "points_awarded")

PointsThresholds == {100, 500, 1000, 2000, 5000}

\* C14: after every journal log_completion call, successful or rejected,
\* for each threshold T exactly one account-wide POINTS_T badge exists if
\* the cumulative points of all logs are >= T and none otherwise; the badge
\* is among the badges returned by exactly the call that first brings the
\* total to >= T.
C14_PointsBadgeAtCrossing ==
  /\ [](\A t \in PointsThresholds :
          BadgesOf(jbadges, PointsCode(t), NULL)
            = (IF CumulativePoints(jlogs) >= t THEN 1 ELSE 0))
  /\ [][\A d \in LongWindow :
          Journal_log_completion("read", d)
          => \A t \in PointsThresholds :
               PointsCode(t) \in ret'.earned
                 <=> (CumulativePoints(jlogs) < t /\ CumulativePoints(jlogs') >= t)]_vars

\* the total has passed 500: the call that crossed it returned POINTS_500,
\* POINTS_100 is held since an earlier call, and a later call was rejected
C14_Witness ==
  /\ ret.op = "log_completion" /\ ret.err = "Duplicate"
  /\ CumulativePoints(jlogs) >= 500
  /\ \E b1, b2 \in BagToSet(jbadges) :
       /\ b1.code = "POINTS_100" /\ b1.points_at_award < 500
       /\ b2.code = "POINTS_500" /\ b2.points_at_award >= 500
  /\ Runs(JournalDatesOf("read")) = 2

\* C15: the journal's FIRST_STEP badge is granted by exactly the first
\* successful log_completion across all habits; from then on exactly one
\* FIRST_STEP row exists and no later call, successful or rejected, for any
\* habit or date, grants it again.
C15_FirstStepOnce ==
  /\ [](BadgesOf(jbadges, "FIRST_STEP", NULL) = (IF jlogs = EmptyBag THEN 0 ELSE 1))
  /\ [][\A name \in JournalNames, d \in AllDays :
          Journal_log_completion(name, d)
          => ("FIRST_STEP" \in ret'.earned
                <=> (jlogs = EmptyBag /\ ret'.err = "none"))]_vars

\* two habits hold logs, the last call was rejected, one FIRST_STEP exists
C15_Witness ==
  /\ ret.op = "log_completion" /\ ret.err = "Duplicate"
  /\ \E r1, r2 \in BagToSet(jlogs) : r1.habit_id # r2.habit_id
  /\ BagCardinality(jlogs) >= 3
  /\ BadgesOf(jbadges, "FIRST_STEP", NULL) = 1

\* the number of days of the long window on which a diary habit has a
\* point-bearing completion
CompletionDays(logs, habit_id) ==
  Cardinality({d \in LongWindow : PointBearing(logs, habit_id, d) >= 1})

\* the awards with a badge name added to a habit by a step
NewAwards(name, habit_id) ==
  AwardsOf(dawards', name, habit_id) - AwardsOf(dawards, name, habit_id)

\* C16: a lifetime-count badge of the diary (COMPLETE_30, COMPLETE_100) is
\* granted to habit h by exactly the log_completion call that makes the
\* number of point-bearing completions of h equal to the threshold; absorbed
\* same-day repeats do not count, and the badge is not granted before that
\* call nor again after it.
C16_CompleteBadgeAtThreshold ==
  /\ [](\A h \in HabitIds :
          /\ AwardsOf(dawards, "COMPLETE_30", h)
               = (IF CompletionDays(dlogs, h) >= 30 THEN 1 ELSE 0)
          /\ AwardsOf(dawards, "COMPLETE_100", h)
               = (IF CompletionDays(dlogs, h) >= 100 THEN 1 ELSE 0))
  /\ [][\A d \in LongWindow, h \in HabitIds :
          Diary_log_completion([isdigit |-> FALSE, name |-> "read"], d)
          => /\ NewAwards("COMPLETE_30", h)
                  = (IF CompletionDays(dlogs, h) = 29 /\ CompletionDays(dlogs', h) = 30
                     THEN 1 ELSE 0)
             /\ NewAwards("COMPLETE_100", h)
                  = (IF CompletionDays(dlogs, h) = 99 /\ CompletionDays(dlogs', h) = 100
                     THEN 1 ELSE 0)]_vars

\* a habit holds 31 completions in two runs and COMPLETE_30, a same-day
\* repeat having been absorbed before the 30th completion
C16_Witness ==
  \E h \in HabitIds :
    /\ CompletionDays(dlogs, h) = 31
    /\ AwardsOf(dawards, "COMPLETE_30", h) = 1
    /\ AwardsOf(dawards, "STREAK_30", h) = 0
    /\ \E n \in BagToSet(dlogs), a \in BagToSet(dawards) :
         /\ n.habit_id = h /\ n.kind = "COMPLETION" /\ n.completed = 0
         /\ a.habit_id = h /\ a.name = "COMPLETE_30" /\ n.log_date < a.award_date

\* the grant evaluation of the diary's log_completion run on tables
\* st = [logs, awards]: the weekly bonus, then the badges
DiaryGrantEvaluation(st, habit, log_day) ==
  LET s1 == Diary_award_weekly_consistency_bonus_if_eligible(st, habit, log_day)
      s2 == Diary_check_and_award_badges(s1, habit, log_day)
  IN [logs |-> s2.logs, awards |-> s2.awards]

\* C17: the diary's grant evaluation is idempotent on unchanged history:
\* after a log_completion for (habit, date), running
\* _award_weekly_consistency_bonus_if_eligible and _check_and_award_badges
\* again for that (habit, date), once or twice, adds no awards row and no
\* BONUS or BADGE row.
C17_DiaryGrantsIdempotent ==
  [][\A ref \in DiaryRefs, d \in LongWindow, h \in dhabits :
       (h.id \in DiaryIdsOf(ref) /\ Diary_log_completion(ref, d))
       => LET st0 == [logs |-> dlogs', awards |-> dawards']
              st1 == DiaryGrantEvaluation(st0, h, d)
              st2 == DiaryGrantEvaluation(st1, h, d)
          IN st1 = st0 /\ st2 = st0]_vars

\* the latest completion brought a badge and a weekly bonus is held
C17_Witness ==
  \E a, w \in BagToSet(dawards) :
    /\ a.name \in {"STREAK_7", "STREAK_30", "COMPLETE_30"}
    /\ w.name = "WEEKLY_CONSISTENCY"
    /\ \A r \in BagToSet(dlogs) : r.log_date <= a.award_date
    /\ ret.op = "log_completion" /\ ret.err = "none" /\ ret.gained > 0

\* the grant evaluation of the journal's log_completion run on the badges
\* table for a stored log: first step, streak badge, points thresholds
JournalGrantEvaluation(badges, logs, habit_id, streak_count) ==
  LET b0 == [badges |-> badges, earned |-> {}]
      b1 == Journal_maybe_award_first_step_badge(b0, logs)
      b2 == Journal_maybe_award_streak_badge(b1, logs, habit_id, streak_count)
      b3 == Journal_maybe_award_points_threshold_badges(b2, logs)
  IN b3.badges

\* C18: the journal's grant evaluation is idempotent on unchanged history:
\* in every reachable state, the state with exactly one log included,
\* running _maybe_award_first_step_badge, _maybe_award_streak_badge and
\* _maybe_award_points_threshold_badges again for a stored log leaves the
\* badges table unchanged.
C18_JournalGrantsIdempotent ==
  \A r \in BagToSet(jlogs) :
    JournalGrantEvaluation(jbadges, jlogs, r.habit_id, r.streak_count) = jbadges

\* the rows of a table dated in a calendar month, by the year and the month
\* of their dates
DiaryRowsIn(logs, m) ==
  {r \in BagToSet(logs) : YearOf(r.log_date) = m[1] /\ MonthOf(r.log_date) = m[2]}

JournalRowsIn(logs, m) ==
  {r \in BagToSet(logs) : YearOf(r.date) = m[1] /\ MonthOf(r.date) = m[2]}

\* C19: in both variants the monthly report of a month that contains no
\* completion reports total points 0 (the journal also completions 0,
\* unique_habits 0 and best_streak 0) and the lowest reward tier (journal:
\* the tier below 100 points; diary: the suggestions for totals below 200),
\* whatever events exist in other months.
C19_EmptyMonthReport ==
  /\ (ret.op = "month_report" /\ JournalRowsIn(jlogs, ret.period) = {})
     => /\ ret.points = 0 /\ ret.completions = 0
        /\ ret.unique_habits = 0 /\ ret.best_streak = 0
        /\ ret.reward_tier = "Start"
  /\ (ret.op = "month_summary"
      /\ ~\E r \in DiaryRowsIn(dlogs, ret.period) : r.kind = "COMPLETION")
     => /\ ret.total_points = 0
        /\ \A t \in ret.per_habit : t[3] = 0
        /\ ret.suggested_rewards.rank = 1

\* the summary of January was asked for while the diary holds completions
\* and a weekly bonus in December only
C19_Witness ==
  /\ ret.op = "month_summary" /\ ret.period = <<2025, 1>>
  /\ DiaryRowsIn(dlogs, <<2025, 1>>) = {}
  /\ \E r \in DiaryRowsIn(dlogs, <<2024, 12>>) : r.kind = "BONUS"
  /\ ret.total_points = 0 /\ ret.suggested_rewards.rank = 1

\* the total points the report of a month gives in the variant in use
ReportedTotal(m) ==
  IF variant = "journal" THEN Journal_month_report(jlogs, m[1], m[2]).points
  ELSE Diary_month_summary(dhabits, dlogs, dawards, m[1], m[2]).total_points

\* the points of all stored log rows dated in one of the months of a set
StoredPoints(months) ==
  IF variant = "journal"
  THEN SumOver(jlogs, UNION {JournalRowsIn(jlogs, m) : m \in months}, "points_awarded")
  ELSE SumOver(dlogs, UNION {DiaryRowsIn(dlogs, m) : m \in months}, "points")

\* C20: in both variants monthly totals are additive: for every stored
\* history and two distinct calendar months A and B, total(A) + total(B) is
\* the sum of the points of all stored log rows dated in A or B, and every
\* log row's points are counted in exactly one month's report, the month of
\* its date.
C20_MonthlyTotalsAdditive ==
  /\ \A a, b \in ReportMonths :
       a # b => ReportedTotal(a) + ReportedTotal(b) = StoredPoints({a, b})
  /\ \A a \in ReportMonths : ReportedTotal(a) = StoredPoints({a})
  /\ ret.op = "month_report" => ret.points = StoredPoints({ret.period})
  /\ ret.op = "month_summary" => ret.total_points = StoredPoints({ret.period})

\* a report was made while the logs hold rows of December and of January,
\* a weekly bonus among them
C20_Witness ==
  /\ ret.op = "month_summary" /\ ret.total_points >= 30
  /\ \E r1 \in DiaryRowsIn(dlogs, <<2024, 12>>), r2 \in DiaryRowsIn(dlogs, <<2025, 1>>) :
       r1.points > 0 /\ r2.points > 0 /\ (r1.kind = "BONUS" \/ r2.kind = "BONUS")

\* the largest streak_count stored on the journal's logs dated in a month,
\* 0 when there are none
StoredBestStreak(logs, m) ==
  LET rows == JournalRowsIn(logs, m)
  IN IF rows = {} THEN 0
     ELSE (CHOOSE r \in rows : \A q \in rows : q.streak_count <= r.streak_count).streak_count

\* C21: the best_streak of the journal's month_report is the largest
\* streak_count stored on the logs dated in that month (0 when there are
\* none); it is not recomputed from the dates, so a completion logged with
\* a date outside the month does not change it.
C21_BestStreakIsStoredMax ==
  /\ [](ret.op = "month_report" => ret.best_streak = StoredBestStreak(jlogs, ret.period))
  /\ [][\A name \in JournalNames, d \in Days, m \in ReportMonths :
          (Journal_log_completion(name, d) /\ <<YearOf(d), MonthOf(d)>> # m)
          => Journal_month_report(jlogs', m[1], m[2]).best_streak
               = Journal_month_report(jlogs, m[1], m[2]).best_streak]_vars

\* January's report gives best_streak 1 for a habit logged on 2025-01-01
\* and then, backdated, on 2024-12-31: the dates make a run of 2
C21_Witness ==
  /\ ret.op = "month_report" /\ ret.period = <<2025, 1>> /\ ret.best_streak = 1
  /\ \E r1, r2 \in BagToSet(jlogs) :
       /\ r1.habit_id = r2.habit_id
       /\ r1.date = Ordinal(2024, 12, 31) /\ r2.date = Ordinal(2025, 1, 1)
  /\ JournalRowsIn(jlogs, <<2025, 1>>) # {}

\* C22: in both variants add_habit with the name of an existing habit,
\* active or deactivated, fails with an error and leaves the habits table
\* unchanged, so that after any sequence of add_habit and deactivate calls
\* no two habits share a name.
C22_HabitNamesUnique ==
  /\ [](/\ \A h1, h2 \in dhabits : h1.name = h2.name => h1 = h2
        /\ \A h1, h2 \in jhabits : h1.name = h2.name => h1 = h2)
  /\ [][/\ \A p \in Profiles :
             ((\E h \in dhabits : h.name = p[1]) /\ Diary_add_habit(p[1], p[2], p[3]))
             => (ret'.err = "IntegrityError" /\ dhabits' = dhabits)
        /\ \A name \in JournalNames :
             ((\E h \in jhabits : h.name = name) /\ Journal_add_habit(name))
             => (ret'.err = "IntegrityError" /\ jhabits' = jhabits)]_vars

\* add_habit failed while both habits of the diary are deactivated
C22_Witness ==
  /\ ret.op = "add_habit" /\ ret.err = "IntegrityError"
  /\ Cardinality(dhabits) = 2
  /\ \A h \in dhabits : h.is_active = 0

\* C23: the diary's deactivate_habit changes only the is_active flag of
\* that habit: logs and awards are unchanged, the habit is absent from
\* list_habits(include_inactive=False) and present in
\* list_habits(include_inactive=True), and month_summary of every month
\* returns the same per-habit and total points as before.
C23_DeactivateFrame ==
  [][\A habit_id \in 1 .. 3 :
       Diary_deactivate_habit(habit_id)
       => /\ dlogs' = dlogs /\ dawards' = dawards
          /\ \A h \in dhabits :
               IF h.id = habit_id
               THEN /\ [h EXCEPT !.is_active = 0] \in dhabits'
                    /\ \A g \in Diary_list_habits(dhabits', FALSE) : g.id # habit_id
                    /\ \E g \in Diary_list_habits(dhabits', TRUE) : g.id = habit_id
               ELSE h \in dhabits'
          /\ Cardinality(dhabits') = Cardinality(dhabits)
          /\ \A m \in ReportMonths :
               LET before == Diary_month_summary(dhabits, dlogs, dawards, m[1], m[2])
                   after == Diary_month_summary(dhabits', dlogs', dawards', m[1], m[2])
               IN /\ after.per_habit = before.per_habit
                  /\ after.total_points = before.total_points]_vars

\* a habit with points in both months and a weekly bonus was deactivated
C23_Witness ==
  /\ ret.op = "deactivate_habit"
  /\ \E h \in dhabits :
       /\ h.is_active = 0
       /\ \E r \in BagToSet(dlogs) : r.habit_id = h.id /\ r.kind = "BONUS"
       /\ \E r \in DiaryRowsIn(dlogs, <<2024, 12>>) : r.habit_id = h.id /\ r.points > 0
       /\ \E r \in DiaryRowsIn(dlogs, <<2025, 1>>) : r.habit_id = h.id /\ r.points > 0

\* C24: in both variants a log_completion whose habit reference resolves to
\* no habit raises an error before any write: logs and grants (awards,
\* badges) are unchanged by the failed call.
C24_UnknownHabitWritesNothing ==
  [][/\ \A ref \in DiaryRefs, d \in AllDays :
          (DiaryIdsOf(ref) = {} /\ Diary_log_completion(ref, d))
          => (ret'.err = "NotFound" /\ dlogs' = dlogs /\ dawards' = dawards
              /\ dhabits' = dhabits)
     /\ \A name \in JournalNames, d \in AllDays :
          (JournalIdsOf(name) = {} /\ Journal_log_completion(name, d))
          => (ret'.err = "NotFound" /\ jlogs' = jlogs /\ jbadges' = jbadges
              /\ jhabits' = jhabits)]_vars

\* a call for an unknown habit failed while another habit holds logs and
\* grants
C24_Witness ==
  /\ ret.op = "log_completion" /\ ret.err = "NotFound"
  /\ \/ (Cardinality(dhabits) = 1 /\ dawards # EmptyBag /\ DiaryCompletions(dlogs) >= 2)
     \/ (Cardinality(jhabits) = 1 /\ jbadges # EmptyBag /\ BagCardinality(jlogs) >= 2)

\* every row of table B is in table C as it was, as many times at least
RowsKept(B, C) == \A r \in BagToSet(B) : CopiesIn(r, C) >= CopiesIn(r, B)

\* C25: in both variants completion records and grants are append-only: no
\* operation (log_completion, add_habit, deactivate_habit, the reports)
\* changes a field of a stored log row or grant row or removes the row, so
\* the rows only grow and the cumulative points never decrease.
C25_AppendOnly ==
  [][/\ RowsKept(dlogs, dlogs') /\ RowsKept(dawards, dawards')
     /\ RowsKept(jlogs, jlogs') /\ RowsKept(jbadges, jbadges')
     /\ BagCardinality(dlogs') >= BagCardinality(dlogs)
     /\ SumOver(dlogs', BagToSet(dlogs'), "points")
          >= SumOver(dlogs, BagToSet(dlogs), "points")
     /\ SumOver(dawards', BagToSet(dawards'), "points")
          >= SumOver(dawards, BagToSet(dawards), "points")
     /\ CumulativePoints(jlogs') >= CumulativePoints(jlogs)]_vars

\* a summary was made of a diary that holds completions, an annotation and
\* a grant of a habit deactivated since
C25_Witness ==
  /\ ret.op = "month_summary"
  /\ DiaryNotes(dlogs) >= 1
  /\ \E h \in dhabits, a \in BagToSet(dawards) : h.is_active = 0 /\ a.habit_id = h.id

C27_CompletionWithItsGrants ==
  /\ \A h \in dhabits, d \in Calendar :
       (/\ \E r \in BagToSet(dlogs) :
             /\ r.habit_id = h.id /\ r.log_date = d
             /\ r.kind = "COMPLETION" /\ r.completed = 1
        /\ DiaryWeekCount(dlogs, h.id, WeekStart[d], WeekEnd[d]) >= h.frequency_per_week)
       => DiaryWeekAwarded(dawards, h.id, WeekStart[d], WeekEnd[d]) >= 1
  /\ jlogs # EmptyBag => BadgesOf(jbadges, "FIRST_STEP", NULL) >= 1

\* C28: of two diary calls for the same habit and date that run statement
\* by statement, at most one stores a row with completed = 1 and points > 0.
C28_OneCompletionUnderInterleaving ==
  \A p, q \in Procs :
    (/\ p # q
     /\ variant = "diary"
     /\ calls[p] = Done /\ calls[q] = Done)
    => \A h \in dhabits, d \in StepWindow :
         CountOver(dlogs, {r \in BagToSet(dlogs) :
                             /\ r.habit_id = h.id /\ r.log_date = d
                             /\ r.kind = "COMPLETION"
                             /\ r.completed = 1 /\ r.points > 0}) <= 1

\* C29: whatever the interleaving of two journal calls, the badges table
\* holds at most one row with habit_id NULL for each POINTS_T code and for
\* FIRST_STEP.
C29_OneGlobalBadgeUnderInterleaving ==
  \A code \in {PointsCode(thresholds[i]) : i \in 1 .. Len(thresholds)} \cup {"FIRST_STEP"} :
    BadgesOf(jbadges, code, NULL) <= 1

\* C30: in both variants, whatever the order of the calls, a habit with
\* completions on 7 consecutive days has a STREAK_7 grant.
C30_Streak7WheneverSevenDays ==
  /\ \A h \in dhabits, d \in WeekWindow :
       (\A k \in 0 .. 6 :
          \E r \in BagToSet(dlogs) :
            /\ r.habit_id = h.id /\ r.log_date = d - k
            /\ r.kind = "COMPLETION" /\ r.completed = 1)
       => \E a \in BagToSet(dawards) : a.name = "STREAK_7" /\ a.habit_id = h.id
  /\ \A h \in jhabits, d \in WeekWindow :
       (\A k \in 0 .. 6 :
          \E r \in BagToSet(jlogs) : r.habit_id = h.id /\ r.date = d - k)
       => BadgesOf(jbadges, "STREAK_7", h.id) >= 1

\* C31: a diary log_completion for a (habit, date) without a completion
\* record returns, as gained, the points of the completion row it stores
\* plus 20 exactly when it grants a WEEKLY_CONSISTENCY award (badges add
\* nothing); the points stored for the month of the date grow by that value,
\* and the total returned is the month's total, the one month_summary
\* reports.
C31_GainedAndMonthTotal ==
  [][\A ref \in DiaryRefs, d \in AllDays, h \in dhabits :
       (/\ h.id \in DiaryIdsOf(ref)
        /\ CompletionRecords(dlogs, h.id, d) = 0
        /\ Diary_log_completion(ref, d))
       => LET m == <<YearOf(d), MonthOf(d)>>
              granted == NewAwards("WEEKLY_CONSISTENCY", h.id)
              bonus == IF granted >= 1 THEN 20 ELSE 0
              before == SumOver(dlogs, DiaryRowsIn(dlogs, m), "points")
              after == SumOver(dlogs', DiaryRowsIn(dlogs', m), "points")
          IN /\ ret'.err = "none"
             /\ granted \in {0, 1}
             /\ \E r \in BagToSet(dlogs') :
                  /\ r.habit_id = h.id /\ r.log_date = d
                  /\ r.kind = "COMPLETION" /\ r.completed = 1
                  /\ ret'.gained = r.points + bonus
             /\ after - before = ret'.gained
             /\ ret'.total = after
             /\ ret'.total =
                  Diary_month_summary(dhabits, dlogs', dawards', m[1], m[2]).total_points]_vars

\* the last call stored a completion and granted the weekly bonus on its
\* date: it returned the completion's points plus 20 and the month's total
C31_Witness ==
  /\ ret.op = "log_completion" /\ ret.err = "none"
  /\ \E a \in BagToSet(dawards), r \in BagToSet(dlogs) :
       /\ a.name = "WEEKLY_CONSISTENCY"
       /\ r.habit_id = a.habit_id /\ r.log_date = a.award_date
       /\ r.kind = "COMPLETION" /\ r.completed = 1
       /\ ret.gained = r.points + 20
       /\ ret.total = SumOver(dlogs, DiaryRowsIn(dlogs, <<YearOf(r.log_date), MonthOf(r.log_date)>>),
                              "points")
       /\ ret.total > ret.gained

\* C32: a journal log_completion that stores a row stores and returns
\* 10 + min(2 * (streak - 1), 20) + combo points, streak being the streak
\* stored on the row and combo 5 when the date held at least 2 logs before
\* the insert and 0 otherwise; the points lie between 10 and 35, never fall
\* as the streak grows with the same number of logs on the date, and are the
\* same for every streak from 11 on.
C32_JournalPoints ==
  /\ [][\A name \in ComboNames, d \in ComboWindow, h \in jhabits :
          (/\ h.name = name
           /\ JournalRowsOn(jlogs, h.id, d) = 0
           /\ Journal_log_completion(name, d))
          => \E r \in BagToSet(jlogs') :
               LET combo == IF CountOver(jlogs, {x \in BagToSet(jlogs) : x.date = d}) >= 2
                            THEN 5 ELSE 0
               IN /\ r.habit_id = h.id /\ r.date = d
                  /\ r.points_awarded = 10 + Min(2 * (r.streak_count - 1), 20) + combo
                  /\ ret'.err = "none"
                  /\ ret'.gained = r.points_awarded
                  /\ ret'.streak = r.streak_count
                  /\ 10 <= r.points_awarded /\ r.points_awarded <= 35
                  /\ r.streak_count >= 11 => r.points_awarded = 30 + combo]_vars
  /\ [](\A streak \in 1 .. MaxStreak, n \in 0 .. 3 :
          /\ JournalAwardedPoints(streak, n) <= JournalAwardedPoints(streak + 1, n)
          /\ streak >= 11 => JournalAwardedPoints(streak, n) = JournalAwardedPoints(11, n))

\* the last call stored streak 12 on a date that held two logs already: it
\* returned 35 points; an earlier row has a streak bonus and no combo
C32_Witness ==
  /\ ret.op = "log_completion" /\ ret.err = "none"
  /\ ret.streak = 12 /\ ret.gained = 35
  /\ \E r \in BagToSet(jlogs) :
       /\ r.streak_count = 12 /\ r.points_awarded = 35
       /\ CountOver(jlogs, {x \in BagToSet(jlogs) : x.date = r.date}) = 3
  /\ \E r \in BagToSet(jlogs) : r.streak_count = 5 /\ r.points_awarded = 18

\* the rows of a kind the diary's logs hold for (habit, date)
DiaryEchoRows(logs, kind, habit_id, d) ==
  {r \in BagToSet(logs) : r.kind = kind /\ r.habit_id = habit_id /\ r.log_date = d}

\* the awards of (habit, date): the weekly bonus, or the badges
DiaryAwardRows(awards, weekly, habit_id, d) ==
  {a \in BagToSet(awards) :
     /\ (a.name = "WEEKLY_CONSISTENCY") = weekly
     /\ a.habit_id = habit_id /\ a.award_date = d}

\* C33: in every state of the diary, for every (habit, date), the BONUS rows
\* of logs are as many as the WEEKLY_CONSISTENCY awards and the BADGE rows as
\* many as the badge awards, with the same points; so the total of a month
\* taken from logs alone is the points of its completions plus the points
\* of its awards, each weekly bonus counted once.
C33_AwardsEchoedInLogs ==
  /\ \A p \in {<<r.habit_id, r.log_date>> : r \in BagToSet(dlogs)}
              \cup {<<a.habit_id, a.award_date>> : a \in BagToSet(dawards)} :
       /\ CountOver(dlogs, DiaryEchoRows(dlogs, "BONUS", p[1], p[2]))
            = CountOver(dawards, DiaryAwardRows(dawards, TRUE, p[1], p[2]))
       /\ SumOver(dlogs, DiaryEchoRows(dlogs, "BONUS", p[1], p[2]), "points")
            = SumOver(dawards, DiaryAwardRows(dawards, TRUE, p[1], p[2]), "points")
       /\ CountOver(dlogs, DiaryEchoRows(dlogs, "BADGE", p[1], p[2]))
            = CountOver(dawards, DiaryAwardRows(dawards, FALSE, p[1], p[2]))
       /\ SumOver(dlogs, DiaryEchoRows(dlogs, "BADGE", p[1], p[2]), "points")
            = SumOver(dawards, DiaryAwardRows(dawards, FALSE, p[1], p[2]), "points")
  /\ \A m \in ReportMonths :
       LET range == month_range(m[1], m[2])
       IN Diary_get_month_total_points(dlogs, m[1], m[2])
            = SumOver(dlogs, {r \in DiaryRowsIn(dlogs, m) : r.kind = "COMPLETION"}, "points")
              + SumOver(dawards, {a \in BagToSet(dawards) :
                                    range[1] <= a.award_date /\ a.award_date <= range[2]},
                        "points")

\* the diary holds a weekly bonus and a STREAK_7 badge, each with its row in
\* logs
C33_Witness ==
  \E a, b \in BagToSet(dawards) :
    /\ a.name = "WEEKLY_CONSISTENCY" /\ a.points = 20
    /\ b.name = "STREAK_7" /\ b.habit_id = a.habit_id
    /\ DiaryEchoRows(dlogs, "BONUS", a.habit_id, a.award_date) # {}
    /\ DiaryEchoRows(dlogs, "BADGE", b.habit_id, b.award_date) # {}

\* C34: when the completions of every habit of the journal are logged in
\* strictly ascending order of dates, in every state the streak_count stored
\* on the row of (habit, d) is what _compute_current_streak_up_to(habit, d)
\* returns.
C34_StoredStreakIsRecomputed ==
  \A r \in BagToSet(jlogs) :
    r.streak_count = Journal_compute_current_streak_up_to(jlogs, r.habit_id, r.date)

\* a run of at least 3 days, a gap, and a second run of 2 days are stored
C34_Witness ==
  \E r1, r2 \in BagToSet(jlogs) :
    /\ r1.habit_id = r2.habit_id
    /\ r1.streak_count >= 3 /\ r2.streak_count = 2
    /\ r1.date + 2 < r2.date
    /\ JournalRowsOn(jlogs, r1.habit_id, r2.date - 2) = 0
    /\ Journal_compute_current_streak_up_to(jlogs, r2.habit_id, r2.date) = 2

====
